---- MODULE Spec2Model ----
(***************************************************************************)
(* SockBot: the browser module (rate-limited task queues, login,          *)
(* pagination drivers, post normalisation) and the command parser.        *)
(***************************************************************************)
EXTENDS Integers, Sequences, FiniteSets, TLC

VARIABLES
    tasks,       \* per class: the async.queue's waiting tasks
    running,     \* per class: ids of the tasks whose worker has not called back
    inflight,    \* per class: the requests handed to the transport, unanswered
    timers,      \* pending setTimeout callbacks, in creation order
    events,      \* per class: history of push/start/resp/cb/fired
    nextId,      \* per class: number of tasks pushed so far
    csrfHeader,  \* defaults.headers['X-CSRF-Token']
    loginSt,     \* per class: progress of login()
    loginCbs,    \* per class: the results handed to login's callback
    readIds,     \* per class: readPosts' postIds array (spliced in place)
    readSt,      \* per class: progress of readPosts()
    readCbs,     \* per class: the results handed to readPosts' callback
    readArg,     \* per class: the identifiers readPosts was called with
    opsLeft,     \* client calls the environment may still make
    mention,     \* commands.js internals.mention: the bot name the regexp was built for
    listeners,   \* the events of the supplied EventEmitter that have a subscriber
    post,        \* the post handed to parseCommands
    parseCbs,    \* the command lists handed to parseCommands' callback
    immediates,  \* pending setImmediate callbacks (one per parsed command)
    emitted,     \* history of events.emit calls
    cmdThrew,    \* parseCommands threw to its caller
    crashed,     \* an 'error' event without a subscriber was thrown by emit
    item,        \* the post object handed to the normalisation functions
    item0,       \* that post object as it was handed in
    itemLog,     \* the normalisation functions applied to it so far
    feed,        \* per class: progress of getPosts() / getTopics()
    lastCall,    \* the latest call of a public operation and how it returned
    current,     \* internals.current: the handle the module accessor returns
    given        \* the latest use of the accessor and of the handle it returned

schedVars == <<tasks, running, inflight, timers, events, nextId, csrfHeader,
               loginSt, loginCbs, readIds, readSt, readCbs, readArg, opsLeft>>

cmdVars == <<mention, listeners, post, parseCbs, immediates, emitted, cmdThrew, crashed>>

\* what the browser module's actions leave alone
cleanVars == <<item, item0, itemLog>>

\* the pagination drivers and the record of the latest call
feedVars == <<feed, lastCall>>

\* the module accessor and the record of its latest use
handleVars == <<current, given>>

\* what the parser and the normalisation functions own
nonBrowser == <<cmdVars, cleanVars, handleVars>>

nonSched == <<cmdVars, cleanVars, feedVars, handleVars>>

\* what the command parser's actions leave alone
nonCmd == <<schedVars, cleanVars, feedVars, handleVars>>

\* what the normalisation functions leave alone
nonClean == <<schedVars, cmdVars, feedVars, handleVars>>

vars == <<schedVars, cmdVars, cleanVars, feedVars, handleVars>>

(***************************************************************************)
(* Bounds of the model                                                     *)
(***************************************************************************)
MaxOps == 3
MaxLoginOps == 2
MaxReadOps == 2
MaxIds == 450
MaxPieces == 4
MaxTrustCalls == 2
MaxQuotePieces == 5
MaxFencePieces == 4
MaxFeedOps == 1
MaxPages == 3
MaxCalls == 1
MaxCleanCalls == 2
MaxLiveOps == 2
MaxHandleCalls == 1

(***************************************************************************)
(* Program constants                                                       *)
(***************************************************************************)
Concurrency == 1
CoreDelay == 0
PluginDelay == 5000
ChunkSize == 200
\* word lengths one short of the ones the two regular expressions demand
ShortMinWordTwo == 3 - 1
MentionMinWordTwo == 3 - 1

ShortMinWord == 3
MentionMinWord == 3

Classes == {"core", "plugin"}

\* coreQueue.delay / pluginQueue.delay: `this.delay` of a handle's operations
DelayOf(c) == IF c = "core" THEN CoreDelay ELSE PluginDelay

\* what the transport may answer: (e, _, body) of the request callback
Responses == { [err |-> TRUE,  raw |-> "none"],
               [err |-> FALSE, raw |-> "json"],
               [err |-> FALSE, raw |-> "text"] }

\* try { body = JSON.parse(body); } catch (ignore) {}
JSONparse(raw) == IF raw = "json" THEN "obj" ELSE raw

\* if (task.url && task.url[0] === '/') task.url = config.core.forum + task.url
ResolveUrl(url) == IF Len(url) > 0 /\ url[1] = "/" THEN <<"forum">> \o url ELSE url

Task(c, kind, url, form, hasCb, delay) ==
    [id |-> nextId[c] + 1, kind |-> kind, url |-> url, form |-> form,
     hasCb |-> hasCb, delay |-> delay]

\* one entry of the history: what happened, to which task, with which outcome
Ev(e, t, err) == [e |-> e, id |-> t.id, kind |-> t.kind, err |-> err, form |-> t.form]

\* the history entry of a push also keeps the task's url and whether it has a
\* callback
EvPush(t) ==
    [e |-> "push", id |-> t.id, kind |-> t.kind, err |-> FALSE, form |-> t.form,
     hasCb |-> t.hasCb, url |-> t.url]

\* the history entry of a task callback called with the response's error
EvCb(t) == Ev("cb", t, t.err)

\* the history entry of an operation's completion callback
EvComplete(kind, err) == [e |-> "complete", id |-> 0, kind |-> kind, err |-> err, form |-> <<>>]

Min(a, b) == IF a < b THEN a ELSE b

\* the sequences of a sequence, joined
RECURSIVE Concat(_)
Concat(ss) == IF ss = <<>> THEN <<>> ELSE Head(ss) \o Concat(Tail(ss))

(***************************************************************************)
(* Scheduler: async.queue(queueWorker, 1) per class                        *)
(***************************************************************************)
\* no getPosts/getTopics was called on the class
FeedIdle == [op |-> "none", busy |-> FALSE]

\* the closure of a driver when it is called
FeedStart ==
    [op |-> "none", st |-> "idle", hasComplete |-> FALSE, stream |-> << >>,
     posts |-> << >>, url |-> << >>, items |-> << >>, pos |-> 0, busy |-> FALSE,
     pages |-> 0]

\* no public operation was called
NoCall == [op |-> "none"]

\* the module as loaded: no setter has run, no operation was called through a handle
NoHandleCall == [op |-> "none", setBy |-> "load"]

SchedInit(ops) ==
    /\ feed = [c \in Classes |-> FeedIdle]
    /\ lastCall = NoCall
    /\ current = "core"
    /\ given = NoHandleCall
    /\ opsLeft = ops
    /\ tasks = [c \in Classes |-> <<>>]
    /\ running = [c \in Classes |-> {}]
    /\ inflight = [c \in Classes |-> {}]
    /\ timers = <<>>
    /\ events = [c \in Classes |-> <<>>]
    /\ nextId = [c \in Classes |-> 0]
    /\ csrfHeader = "unset"
    /\ loginSt = [c \in Classes |-> "idle"]
    /\ loginCbs = [c \in Classes |-> <<>>]
    /\ readIds = [c \in Classes |-> <<>>]
    /\ readSt = [c \in Classes |-> "idle"]
    /\ readCbs = [c \in Classes |-> <<>>]
    /\ readArg = [c \in Classes |-> <<>>]

\* mutant: q.process() that does not look at the number of running workers
NumToStartUnlimited(waiting, busy) == Len(waiting)

\* q.process(): while (workers < concurrency && tasks.length) start the head task
NumToStart(waiting, busy) ==
    IF Cardinality(busy) < Concurrency
    THEN Min(Concurrency - Cardinality(busy), Len(waiting))
    ELSE 0

\* the tasks q.process() takes off the queue: tasks.shift(), from the front
TakeTasks(waiting, k) == SubSeq(waiting, 1, k)

RestTasks(waiting, k) == SubSeq(waiting, k + 1, Len(waiting))

\* mutant: requests built from the headers the module was loaded with
RequestWithLoadTimeHeaders(t) ==
    [id |-> t.id, kind |-> t.kind, url |-> ResolveUrl(t.url), form |-> t.form,
     hasCb |-> t.hasCb, delay |-> t.delay, csrf |-> "unset"]

\* queueWorker's first half: resolve the url and hand the request to the transport
Request(t) == [id |-> t.id, kind |-> t.kind, url |-> ResolveUrl(t.url),
               form |-> t.form, hasCb |-> t.hasCb, delay |-> t.delay,
               csrf |-> csrfHeader]

SeqToSet(s) == { s[i] : i \in 1..Len(s) }

StartEvents(started) == [i \in 1..Len(started) |-> Ev("start", started[i], FALSE)]

\* q.process() on class c with `waiting` queued and `busy` running, after the
\* events `evs` of the calling handler
ProcessQueue(c, waiting, busy, evs) ==
    LET k == NumToStart(waiting, busy)
        started == TakeTasks(waiting, k)
    IN  /\ tasks' = [tasks EXCEPT ![c] = RestTasks(waiting, k)]
        /\ running' = [running EXCEPT ![c] = busy \cup { t.id : t \in SeqToSet(started) }]
        /\ inflight' = [inflight EXCEPT ![c] = @ \cup { Request(t) : t \in SeqToSet(started) }]
        /\ events' = [events EXCEPT ![c] = @ \o evs \o StartEvents(started)]

\* q.push(task): append; the deferred q.process() is the action Process
PushTask(c, t, evs) ==
    /\ tasks' = [tasks EXCEPT ![c] = Append(@, t)]
    /\ nextId' = [nextId EXCEPT ![c] = @ + 1]
    /\ events' = [events EXCEPT ![c] = @ \o evs \o <<EvPush(t)>>]

\* async.setImmediate(q.process) scheduled by q.push
Process(c) ==
    /\ Len(tasks[c]) > 0
    /\ NumToStart(tasks[c], running[c]) > 0
    /\ ProcessQueue(c, tasks[c], running[c], <<>>)
    /\ UNCHANGED <<timers, nextId, csrfHeader, loginSt, loginCbs, readIds,
                   readSt, readCbs, readArg, opsLeft>>

\* mutant: the worker's release is scheduled before the task's callback
ResponseTimersSwapped(c, r, resp) ==
    << [fn |-> "done", class |-> c, id |-> r.id, kind |-> r.kind, form |-> r.form,
        delay |-> r.delay, err |-> resp.err, body |-> JSONparse(resp.raw), raw |-> resp.raw] >>
    \o (IF r.hasCb
        THEN << [fn |-> "cb", class |-> c, id |-> r.id, kind |-> r.kind, form |-> r.form,
                 delay |-> 0, err |-> resp.err, body |-> JSONparse(resp.raw), raw |-> resp.raw] >>
        ELSE << >>)

\* mutant: a transport error is swallowed, the task's callback never hears of it
ResponseTimersErrorSwallowed(c, r, resp) ==
    (IF r.hasCb /\ ~resp.err
     THEN << [fn |-> "cb", class |-> c, id |-> r.id, kind |-> r.kind, form |-> r.form,
              delay |-> 0, err |-> resp.err, body |-> JSONparse(resp.raw), raw |-> resp.raw] >>
     ELSE << >>)
    \o << [fn |-> "done", class |-> c, id |-> r.id, kind |-> r.kind, form |-> r.form,
           delay |-> r.delay, err |-> resp.err, body |-> JSONparse(resp.raw), raw |-> resp.raw] >>

\* mutant: the worker is released only for a task that has a callback
ResponseTimersNoRelease(c, r, resp) ==
    IF r.hasCb
    THEN << [fn |-> "cb", class |-> c, id |-> r.id, kind |-> r.kind, form |-> r.form,
             delay |-> 0, err |-> resp.err, body |-> JSONparse(resp.raw), raw |-> resp.raw],
            [fn |-> "done", class |-> c, id |-> r.id, kind |-> r.kind, form |-> r.form,
             delay |-> r.delay, err |-> resp.err, body |-> JSONparse(resp.raw), raw |-> resp.raw] >>
    ELSE << >>

\* the two setTimeout calls of the request callback, in the order of the code
ResponseTimers(c, r, resp) ==
    (IF r.hasCb
     THEN << [fn |-> "cb", class |-> c, id |-> r.id, kind |-> r.kind, form |-> r.form,
              delay |-> 0, err |-> resp.err, body |-> JSONparse(resp.raw), raw |-> resp.raw] >>
     ELSE << >>)
    \o << [fn |-> "done", class |-> c, id |-> r.id, kind |-> r.kind, form |-> r.form,
           delay |-> r.delay, err |-> resp.err, body |-> JSONparse(resp.raw), raw |-> resp.raw] >>

\* the transport answers a request: the callback (e, _, body) of internals.request
Respond(c, r, resp) ==
    /\ r \in inflight[c]
    /\ inflight' = [inflight EXCEPT ![c] = @ \ {r}]
    /\ timers' = timers \o ResponseTimers(c, r, resp)
    /\ events' = [events EXCEPT ![c] = Append(@, Ev("resp", r, resp.err))]
    /\ UNCHANGED <<tasks, running, nextId, csrfHeader, loginSt, loginCbs,
                   readIds, readSt, readCbs, readArg, opsLeft>>

\* mutant: one timer list served strictly in creation order, whatever the delays
CanFireInCreationOrder(i) == i = 1

\* a timer fires once every earlier timer of the same or a shorter delay has fired
CanFire(i) == \A j \in 1..(i - 1) : timers[j].delay > timers[i].delay

RemoveAt(s, i) == SubSeq(s, 1, i - 1) \o SubSeq(s, i + 1, Len(s))

\* setTimeout(callback, task.delay) fires: the worker is released, q.process() runs
FireDone(i) ==
    /\ i \in 1..Len(timers)
    /\ timers[i].fn = "done"
    /\ CanFire(i)
    /\ LET c == timers[i].class
       IN  ProcessQueue(c, tasks[c], running[c] \ {timers[i].id},
                        <<Ev("fired", timers[i], FALSE)>>)
    /\ timers' = RemoveAt(timers, i)
    /\ UNCHANGED <<nextId, csrfHeader, loginSt, loginCbs, readIds, readSt,
                   readCbs, readArg, opsLeft>>

(***************************************************************************)
(* Client operations bound to a class handle (`this` = coreQueue/pluginQueue)*)
(***************************************************************************)
\* postAction: one task; its callback is optional
PostAction(c, hasCb) ==
    /\ opsLeft > 0
    /\ opsLeft' = opsLeft - 1
    /\ PushTask(c, Task(c, "plain", <<"/", "post_actions">>, <<>>, hasCb, DelayOf(c)), <<>>)
    /\ UNCHANGED <<running, inflight, timers, csrfHeader, loginSt, loginCbs,
                   readIds, readSt, readCbs, readArg>>

\* getCSRF(delay, queue, callback): push the token request
GetCSRF(c, evs) ==
    PushTask(c, Task(c, "csrf", <<"/", "session/csrf.json">>, <<>>, TRUE, DelayOf(c)), evs)

\* doLogin(delay, queue, callback): push the credential submission
DoLogin(c, evs) ==
    PushTask(c, Task(c, "login", <<"/", "session">>, <<"username", "password">>, TRUE,
                     DelayOf(c)), evs)

\* login(callback): getCSRF first; the second step is chosen in its callback
Login(c) ==
    /\ opsLeft > 0
    /\ loginSt[c] = "idle"
    /\ opsLeft' = opsLeft - 1
    /\ loginSt' = [loginSt EXCEPT ![c] = "csrf"]
    /\ GetCSRF(c, <<>>)
    /\ UNCHANGED <<running, inflight, timers, csrfHeader, loginCbs, readIds,
                   readSt, readCbs, readArg>>

\* mutant: a batch one identifier too long
SplicePartTooLong(ids) == SubSeq(ids, 1, Min(ChunkSize + 1, Len(ids)))

\* const part = postIds.splice(0, 200): the removed front and what is left
SplicePart(ids) == SubSeq(ids, 1, Min(ChunkSize, Len(ids)))

SpliceRest(ids) == SubSeq(ids, Min(ChunkSize, Len(ids)) + 1, Len(ids))

\* async.whilst's test of readPosts
ReadTest(ids) == Len(ids) > 0

\* one round of async.whilst in readPosts, entered with `ids` left: either the
\* iterator (splice a part, push its task) or the completion callback
ReadStep(c, ids, evs) ==
    IF ReadTest(ids)
    THEN /\ readIds' = [readIds EXCEPT ![c] = SpliceRest(ids)]
         /\ readSt' = [readSt EXCEPT ![c] = "running"]
         /\ PushTask(c, Task(c, "read", <<"/", "topics/timings">>, SplicePart(ids), TRUE,
                             DelayOf(c)), evs)
         /\ UNCHANGED readCbs
    ELSE /\ readIds' = [readIds EXCEPT ![c] = ids]
         /\ readSt' = [readSt EXCEPT ![c] = "done"]
         /\ readCbs' = [readCbs EXCEPT ![c] = Append(@, [err |-> FALSE])]
         /\ events' = [events EXCEPT ![c] = @ \o evs \o <<EvComplete("read", FALSE)>>]
         /\ UNCHANGED <<tasks, nextId>>

\* the lists of identifiers the environment passes to readPosts
IdCounts == {0, 1, ChunkSize, ChunkSize + 1, MaxIds}

IdList(n) == [i \in 1..n |-> i]

\* readPosts(topicId, postIds, callback) with a list of identifiers
ReadPosts(c, n) ==
    /\ opsLeft > 0
    /\ readSt[c] = "idle"
    /\ opsLeft' = opsLeft - 1
    /\ readArg' = [readArg EXCEPT ![c] = IdList(n)]
    /\ ReadStep(c, IdList(n), <<>>)
    /\ UNCHANGED <<running, inflight, timers, csrfHeader, loginSt, loginCbs>>

\* readPosts(topicId, postId, callback): a single number becomes [postId]
ReadPost(c, id) ==
    /\ opsLeft > 0
    /\ readSt[c] = "idle"
    /\ opsLeft' = opsLeft - 1
    /\ readArg' = [readArg EXCEPT ![c] = <<id>>]
    /\ ReadStep(c, <<id>>, <<>>)
    /\ UNCHANGED <<running, inflight, timers, csrfHeader, loginSt, loginCbs>>

(***************************************************************************)
(* Task callbacks, run by setTimeout(() => task.callback(e, body), 0)      *)
(***************************************************************************)
\* postAction's callback is the caller's own
PlainCb(c, t) ==
    /\ events' = [events EXCEPT ![c] = Append(@, EvCb(t))]
    /\ UNCHANGED <<tasks, nextId, csrfHeader, loginSt, loginCbs, readIds, readSt, readCbs, readArg>>

\* const csrf = (data || {}).csrf
CsrfOf(body) == IF body = "obj" THEN "token" ELSE "undefined"

\* mutant: login that submits the credentials whatever the CSRF step reported
LoginAfterCsrfAlways(c, err, evs) ==
    /\ loginSt' = [loginSt EXCEPT ![c] = "login"]
    /\ DoLogin(c, evs)
    /\ UNCHANGED loginCbs

\* mutant: the credential submission jumps the queue, so that the two steps of
\* login run back to back
LoginAfterCsrfJumpsQueue(c, err, evs) ==
    IF err
    THEN /\ loginCbs' = [loginCbs EXCEPT ![c] = Append(@, [err |-> TRUE, from |-> "csrf"])]
         /\ loginSt' = [loginSt EXCEPT ![c] = "failed"]
         /\ events' = [events EXCEPT ![c] = @ \o evs \o <<EvComplete("login", TRUE)>>]
         /\ UNCHANGED <<tasks, nextId>>
    ELSE /\ loginSt' = [loginSt EXCEPT ![c] = "login"]
         /\ LET t == Task(c, "login", <<"/", "session">>, <<"username", "password">>, TRUE,
                          DelayOf(c))
            IN  /\ tasks' = [tasks EXCEPT ![c] = <<t>> \o @]
                /\ nextId' = [nextId EXCEPT ![c] = @ + 1]
                /\ events' = [events EXCEPT ![c] = @ \o evs \o <<EvPush(t)>>]
         /\ UNCHANGED loginCbs

\* login's callback of getCSRF: on error report it, else doLogin
LoginAfterCsrf(c, err, evs) ==
    IF err
    THEN /\ loginCbs' = [loginCbs EXCEPT ![c] = Append(@, [err |-> TRUE, from |-> "csrf"])]
         /\ loginSt' = [loginSt EXCEPT ![c] = "failed"]
         /\ events' = [events EXCEPT ![c] = @ \o evs \o <<EvComplete("login", TRUE)>>]
         /\ UNCHANGED <<tasks, nextId>>
    ELSE /\ loginSt' = [loginSt EXCEPT ![c] = "login"]
         /\ DoLogin(c, evs)
         /\ UNCHANGED loginCbs

\* getCSRF's task callback
CsrfCb(c, t) ==
    /\ csrfHeader' = IF t.err THEN csrfHeader ELSE CsrfOf(t.body)
    /\ LoginAfterCsrf(c, t.err, <<EvCb(t)>>)
    /\ UNCHANGED <<readIds, readSt, readCbs, readArg>>

\* doLogin's task callback
LoginCb(c, t) ==
    /\ loginCbs' = [loginCbs EXCEPT ![c] = Append(@, [err |-> t.err, from |-> "login"])]
    /\ loginSt' = [loginSt EXCEPT ![c] = IF t.err THEN "failed" ELSE "done"]
    /\ events' = [events EXCEPT ![c] = @ \o <<EvCb(t), EvComplete("login", t.err)>>]
    /\ UNCHANGED <<tasks, nextId, csrfHeader, readIds, readSt, readCbs, readArg>>

\* readPosts' task callback is async.whilst's next(err)
ReadCb(c, t) ==
    /\ IF t.err
       THEN /\ readCbs' = [readCbs EXCEPT ![c] = Append(@, [err |-> TRUE])]
            /\ readSt' = [readSt EXCEPT ![c] = "done"]
            /\ events' = [events EXCEPT ![c] = @ \o <<EvCb(t), EvComplete("read", TRUE)>>]
            /\ UNCHANGED <<tasks, nextId, readIds>>
       ELSE ReadStep(c, readIds[c], <<EvCb(t)>>)
    /\ UNCHANGED <<csrfHeader, loginSt, loginCbs, readArg>>

FireCb(i) ==
    /\ i \in 1..Len(timers)
    /\ timers[i].fn = "cb"
    /\ timers[i].kind \in {"plain", "csrf", "login", "read"}
    /\ CanFire(i)
    /\ timers' = RemoveAt(timers, i)
    /\ LET t == timers[i]
       IN  CASE t.kind = "plain" -> PlainCb(t.class, t)
             [] t.kind = "csrf"  -> CsrfCb(t.class, t)
             [] t.kind = "login" -> LoginCb(t.class, t)
             [] t.kind = "read"  -> ReadCb(t.class, t)
    /\ UNCHANGED <<running, inflight, opsLeft>>

(***************************************************************************)
(* The scheduler with its clients                                          *)
(***************************************************************************)
\* the command parser before prepareParser, with no post parsed
CmdIdle ==
    /\ mention = [set |-> FALSE, name |-> << >>]
    /\ listeners = {}
    /\ post = [given |-> FALSE, some |-> FALSE, raw |-> << >>]
    /\ parseCbs = <<>>
    /\ immediates = <<>>
    /\ emitted = <<>>
    /\ cmdThrew = FALSE
    /\ crashed = FALSE

\* Spec: tasks of both classes, with and without a callback
\* no post has been handed to the normalisation functions
NoItem == [username |-> "", admin |-> FALSE, moderator |-> FALSE, staff |-> FALSE,
           trust_level |-> 0, raw |-> << >>, hasCleaned |-> FALSE, cleaned |-> << >>]

CleanIdle == item = NoItem /\ item0 = NoItem /\ itemLog = << >>

Init == SchedInit(MaxOps) /\ CmdIdle /\ CleanIdle

Next ==
    \/ \E c \in Classes, hasCb \in BOOLEAN : PostAction(c, hasCb) /\ UNCHANGED nonSched
    \/ \E c \in Classes : Process(c) /\ UNCHANGED nonSched
    \/ \E c \in Classes, resp \in Responses : \E r \in inflight[c] : Respond(c, r, resp) /\ UNCHANGED nonSched
    \/ \E i \in 1..Len(timers) : FireCb(i) /\ UNCHANGED nonSched
    \/ \E i \in 1..Len(timers) : FireDone(i) /\ UNCHANGED nonSched

Spec == Init /\ [][Next]_vars

\* SpecLogin: login on either class among other tasks
InitLogin == SchedInit(MaxLoginOps) /\ CmdIdle /\ CleanIdle

NextLogin ==
    \/ \E c \in Classes : PostAction(c, TRUE) /\ UNCHANGED nonSched
    \/ \E c \in Classes : Login(c) /\ UNCHANGED nonSched
    \/ \E c \in Classes : Process(c) /\ UNCHANGED nonSched
    \/ \E c \in Classes, resp \in Responses : \E r \in inflight[c] : Respond(c, r, resp) /\ UNCHANGED nonSched
    \/ \E i \in 1..Len(timers) : FireCb(i) /\ UNCHANGED nonSched
    \/ \E i \in 1..Len(timers) : FireDone(i) /\ UNCHANGED nonSched

SpecLogin == InitLogin /\ [][NextLogin]_vars

\* SpecRead: readPosts on either class among other tasks
InitRead == SchedInit(MaxReadOps) /\ CmdIdle /\ CleanIdle

NextRead ==
    \/ \E c \in Classes : PostAction(c, TRUE) /\ UNCHANGED nonSched
    \/ \E c \in Classes, n \in IdCounts : ReadPosts(c, n) /\ UNCHANGED nonSched
    \/ \E c \in Classes : ReadPost(c, MaxIds) /\ UNCHANGED nonSched
    \/ \E c \in Classes : Process(c) /\ UNCHANGED nonSched
    \/ \E c \in Classes, resp \in Responses : \E r \in inflight[c] : Respond(c, r, resp) /\ UNCHANGED nonSched
    \/ \E i \in 1..Len(timers) : FireCb(i) /\ UNCHANGED nonSched
    \/ \E i \in 1..Len(timers) : FireDone(i) /\ UNCHANGED nonSched

SpecRead == InitRead /\ [][NextRead]_vars

(***************************************************************************)
(* Reading the history                                                     *)
(***************************************************************************)
EventsOf(c, e) == SelectSeq(events[c], LAMBDA x : x.e = e)

IdsOf(evs) == [i \in 1..Len(evs) |-> evs[i].id]

Before(c, p, e, id) ==
    \E q \in 1..(p - 1) : events[c][q].e = e /\ events[c][q].id = id

Happened(c, e, kind, err) ==
    \E p \in 1..Len(events[c]) :
        events[c][p].e = e /\ events[c][p].kind = kind /\ events[c][p].err = err

Quiet(c) == tasks[c] = <<>> /\ running[c] = {} /\ inflight[c] = {}
            /\ \A i \in 1..Len(timers) : timers[i].class # c

(***************************************************************************)
(* C1: on each class the tasks are started in the order they were pushed,  *)
(* each exactly once (N pushes give N executions once the class is idle),  *)
(* and never are two tasks of one class running or in flight at once.      *)
(***************************************************************************)
C1_FifoOneAtATime ==
    \A c \in Classes :
        /\ IdsOf(EventsOf(c, "push")) = [i \in 1..nextId[c] |-> i]
        /\ IdsOf(EventsOf(c, "start")) = [i \in 1..(nextId[c] - Len(tasks[c])) |-> i]
        /\ Len(EventsOf(c, "resp")) = Len(EventsOf(c, "start")) - Cardinality(inflight[c])
        /\ Cardinality(running[c]) <= 1
        /\ Cardinality(inflight[c]) <= 1
        /\ { r.id : r \in inflight[c] } \subseteq running[c]
        /\ (Quiet(c) => Len(EventsOf(c, "resp")) = nextId[c])

C1_Witness ==
    \E c \in Classes :
        /\ nextId[c] >= 3
        /\ Quiet(c)
        /\ IdsOf(EventsOf(c, "start")) = [i \in 1..nextId[c] |-> i]

C3_LoginOnlyAfterCsrf ==
    \A c \in Classes :
        /\ Happened(c, "cb", "csrf", TRUE) =>
              /\ \A p \in 1..Len(events[c]) :
                    events[c][p].kind = "login" => events[c][p].e = "complete"
              /\ Len(SelectSeq(events[c],
                               LAMBDA x : x.e = "complete" /\ x.kind = "login")) = 1
              /\ \A i \in 1..Len(tasks[c]) : tasks[c][i].kind # "login"
              /\ loginCbs[c] = << [err |-> TRUE, from |-> "csrf"] >>
        /\ \A p \in 1..Len(events[c]) :
              (events[c][p].kind = "login" /\ events[c][p].e = "push") =>
                  /\ p > 1
                  /\ events[c][p - 1].e = "cb"
                  /\ events[c][p - 1].kind = "csrf"
                  /\ ~events[c][p - 1].err

C3_Witness ==
    \E c \in Classes :
        /\ Happened(c, "cb", "csrf", TRUE)
        /\ Quiet(c)
        /\ nextId[c] >= 2
        /\ loginCbs[c] = << [err |-> TRUE, from |-> "csrf"] >>

(***************************************************************************)
(* C4: readPosts with n identifiers and no transport error pushes          *)
(* ceil(n/200) tasks, each with at most 200 identifiers, consecutive       *)
(* slices of the list in order, each pushed in the callback of the one     *)
(* before, and calls back exactly once, after the last batch.              *)
(***************************************************************************)
ReadPushes(c) == SelectSeq(events[c], LAMBDA x : x.e = "push" /\ x.kind = "read")

Forms(evs) == [i \in 1..Len(evs) |-> evs[i].form]

CeilDiv(n, d) == (n + d - 1) \div d

C4_ReadPostsBatches ==
    \A c \in Classes :
        LET parts == Forms(ReadPushes(c))
            n == Len(readArg[c])
        IN  /\ Concat(parts) \o readIds[c] = readArg[c]
            /\ \A i \in 1..Len(parts) :
                  /\ Len(parts[i]) >= 1
                  /\ Len(parts[i]) <= ChunkSize
            /\ \A p \in 1..Len(events[c]) :
                  (events[c][p].e = "push" /\ events[c][p].kind = "read"
                   /\ events[c][p].form # parts[1]) =>
                      /\ events[c][p - 1].e = "cb"
                      /\ events[c][p - 1].kind = "read"
                      /\ events[c][p - 1].form \o events[c][p].form
                            = SubSeq(readArg[c], events[c][p - 1].form[1],
                                     events[c][p].form[Len(events[c][p].form)])
            /\ Len(readCbs[c]) <= 1
            /\ Len(readCbs[c]) = Len(SelectSeq(events[c],
                                    LAMBDA x : x.e = "complete" /\ x.kind = "read"))
            /\ (readCbs[c] # <<>> /\ ~Happened(c, "cb", "read", TRUE)) =>
                  /\ readCbs[c] = << [err |-> FALSE] >>
                  /\ Len(parts) = CeilDiv(n, ChunkSize)
                  /\ Len(SelectSeq(events[c], LAMBDA x : x.e = "cb" /\ x.kind = "read"))
                        = Len(parts)
                  /\ \A p \in 1..Len(events[c]) : \A q \in 1..Len(events[c]) :
                        (events[c][p].e = "complete" /\ events[c][q].kind = "read"
                         /\ events[c][q].e # "fired") => q <= p

C4_Witness ==
    \E c \in Classes :
        /\ Len(readArg[c]) = ChunkSize + ChunkSize + 50
        /\ readCbs[c] = << [err |-> FALSE] >>
        /\ [i \in 1..3 |-> Len(Forms(ReadPushes(c))[i])] = <<ChunkSize, ChunkSize, 50>>
        /\ Len(ReadPushes(c)) = 3

(***************************************************************************)
(* C12: a task whose request failed in transport has its callback run      *)
(* exactly once, with that error; the task is started and answered once    *)
(* (never queued or sent again), and when its delay timer fires the class  *)
(* starts the next waiting task.                                           *)
(***************************************************************************)
CountEv(c, e, id) == Len(SelectSeq(events[c], LAMBDA y : y.e = e /\ y.id = id))

PendingCbs(c, id) ==
    { i \in 1..Len(timers) :
          timers[i].fn = "cb" /\ timers[i].class = c /\ timers[i].id = id }

PushedWithCb(c, id) ==
    \E q \in 1..Len(events[c]) :
        events[c][q].e = "push" /\ events[c][q].id = id /\ events[c][q].hasCb

C12_ErrorPassedOnce ==
    \A c \in Classes : \A p \in 1..Len(events[c]) :
        LET x == events[c][p]
        IN  (x.e = "resp" /\ x.err) =>
              /\ CountEv(c, "cb", x.id) + Cardinality(PendingCbs(c, x.id))
                    = (IF PushedWithCb(c, x.id) THEN 1 ELSE 0)
              /\ \A q \in 1..Len(events[c]) :
                    (events[c][q].e = "cb" /\ events[c][q].id = x.id) =>
                        (q > p /\ events[c][q].err)
              /\ \A i \in PendingCbs(c, x.id) : timers[i].err
              /\ CountEv(c, "start", x.id) = 1
              /\ CountEv(c, "resp", x.id) = 1
              /\ \A i \in 1..Len(tasks[c]) : tasks[c][i].id # x.id
              /\ \A r \in inflight[c] : r.id # x.id
              /\ \A q \in (p + 1)..Len(events[c]) :
                    (/\ events[c][q].e = "fired"
                     /\ events[c][q].id = x.id
                     /\ \E k \in 1..(q - 1) :
                           events[c][k].e = "push" /\ events[c][k].id = x.id + 1) =>
                        /\ q < Len(events[c])
                        /\ events[c][q + 1].e = "start"
                        /\ events[c][q + 1].id = x.id + 1
              /\ Quiet(c) =>
                    /\ CountEv(c, "fired", x.id) = 1
                    /\ \A id \in (x.id + 1)..nextId[c] : CountEv(c, "start", id) = 1

C12_Witness ==
    \E c \in Classes : \E p \in 1..Len(events[c]) :
        /\ events[c][p].e = "resp"
        /\ events[c][p].err
        /\ PushedWithCb(c, events[c][p].id)
        /\ CountEv(c, "cb", events[c][p].id) = 1
        /\ \E q \in (p + 1)..(Len(events[c]) - 1) :
              /\ events[c][q].e = "fired"
              /\ events[c][q].id = events[c][p].id
              /\ events[c][q + 1].e = "start"
              /\ events[c][q + 1].id = events[c][p].id + 1

(***************************************************************************)
(* C13: the task callback is called with the decoded value when the       *)
(* response body is valid JSON, and with the undefined sentinel, never the *)
(* raw text, when it is not.                                               *)
(***************************************************************************)
Undefined == "none"

\* the timers of task callbacks: setTimeout(() => task.callback(e, body), 0)
\* holds the body the callback will be called with
C13_InvalidJsonUndefined ==
    \A i \in 1..Len(timers) :
        timers[i].fn = "cb" =>
            IF timers[i].raw = "json"
            THEN timers[i].body = "obj"
            ELSE timers[i].body = Undefined

C13_Witness ==
    \E i \in 1..Len(timers) :
        /\ timers[i].fn = "cb"
        /\ ~timers[i].err
        /\ timers[i].raw = "text"
        /\ timers[i].body = "text"

(***************************************************************************)
(* commands.js: text as sequences of characters                            *)
(***************************************************************************)
\* the characters the regular expressions' \s matches
IsWs(ch) == ch \in {" ", "\t", "\n", "\r"}

UpperCase == <<"A", "B", "C", "D", "E", "F", "G", "H", "I", "J", "K", "L", "M",
               "N", "O", "P", "Q", "R", "S", "T", "U", "V", "W", "X", "Y", "Z">>

LowerCase == <<"a", "b", "c", "d", "e", "f", "g", "h", "i", "j", "k", "l", "m",
               "n", "o", "p", "q", "r", "s", "t", "u", "v", "w", "x", "y", "z">>

ToLowerCh(ch) ==
    IF \E i \in 1..Len(UpperCase) : UpperCase[i] = ch
    THEN LowerCase[CHOOSE i \in 1..Len(UpperCase) : UpperCase[i] = ch]
    ELSE ch

\* String.prototype.toLowerCase
ToLowerCase(str) == [i \in 1..Len(str) |-> ToLowerCh(str[i])]

\* str.split(sep) for a one-character separator
RECURSIVE SplitChar(_, _)
SplitChar(str, sep) ==
    IF \A i \in 1..Len(str) : str[i] # sep
    THEN << str >>
    ELSE LET i == CHOOSE k \in 1..Len(str) :
                      str[k] = sep /\ \A m \in 1..(k - 1) : str[m] # sep
         IN  << SubSeq(str, 1, i - 1) >> \o SplitChar(SubSeq(str, i + 1, Len(str)), sep)

\* str.split(/\s+/): cut at every run of whitespace
RECURSIVE SplitWs(_)
SplitWs(str) ==
    IF \A i \in 1..Len(str) : ~IsWs(str[i])
    THEN << str >>
    ELSE LET i == CHOOSE k \in 1..Len(str) :
                      IsWs(str[k]) /\ \A m \in 1..(k - 1) : ~IsWs(str[m])
             j == CHOOSE k \in i..Len(str) :
                      /\ \A m \in i..k : IsWs(str[m])
                      /\ (k = Len(str) \/ ~IsWs(str[k + 1]))
         IN  << SubSeq(str, 1, i - 1) >> \o SplitWs(SubSeq(str, j + 1, Len(str)))

\* str.replace(/\s+$/, '')
RECURSIVE TrimRight(_)
TrimRight(str) ==
    IF Len(str) > 0 /\ IsWs(str[Len(str)])
    THEN TrimRight(SubSeq(str, 1, Len(str) - 1))
    ELSE str

\* arr.join(' ')
RECURSIVE JoinSpace(_)
JoinSpace(arr) ==
    IF arr = <<>> THEN <<>>
    ELSE IF Len(arr) = 1 THEN arr[1]
    ELSE arr[1] \o <<" ">> \o JoinSpace(Tail(arr))

\* \S{min,}(\s|$) matched at position `from` of the line
WordRe(line, from, min) ==
    \E k \in min..(Len(line) - from + 1) :
        /\ \A i \in from..(from + k - 1) : ~IsWs(line[i])
        /\ (from + k - 1 = Len(line) \/ IsWs(line[from + k]))

\* /^!\S{3,}(\s|$)/.test(line)
ShortRe(line) == Len(line) >= 1 /\ line[1] = "!" /\ WordRe(line, 2, ShortMinWord)

\* new RegExp('^@' + username + '\\s\\S{3,}(\\s|$)', 'i').test(line)
MentionRe(name, line) ==
    /\ Len(line) >= Len(name) + 2
    /\ line[1] = "@"
    /\ \A i \in 1..Len(name) : ToLowerCh(line[i + 1]) = ToLowerCh(name[i])
    /\ IsWs(line[Len(name) + 2])
    /\ WordRe(line, Len(name) + 3, MentionMinWord)

\* `mention: null` of a short command
NoMention == << >>

\* a parser's result is a sequence: empty for null, else the one command
parseShortCommand(line) ==
    IF ~ShortRe(line) THEN << >>
    ELSE LET args == SplitWs(line)
         IN  << [input |-> line,
                 command |-> ToLowerCase(Tail(Head(args))),
                 args |-> Tail(args),
                 mention |-> NoMention] >>

parseMentionCommand(name, line) ==
    IF ~MentionRe(name, line) THEN << >>
    ELSE LET args == SplitWs(line)
             command == ToLowerCase(args[2])
         IN  << [input |-> TrimRight(<<"!">> \o command \o <<" ">>
                                     \o JoinSpace(Tail(Tail(args)))),
                 command |-> command,
                 args |-> Tail(Tail(args)),
                 mention |-> Head(args)] >>

\* post.raw.split('\n').map((line) => line.replace(/\s+$/, ''))
LinesOf(raw) == LET ls == SplitChar(raw, "\n") IN [i \in 1..Len(ls) |-> TrimRight(ls[i])]

\* the parser parseCommands picks for a line
parseLine(name, line) ==
    IF Len(line) > 0 /\ line[1] = "!"
    THEN parseShortCommand(line)
    ELSE parseMentionCommand(name, line)

\* ....map(parse).filter((command) => !!command)
parseLines(name, lines) == Concat([i \in 1..Len(lines) |-> parseLine(name, lines[i])])

\* a line that reaches internals.mention.test while internals.mention is null
NeedsMention(lines) == \E i \in 1..Len(lines) : ~(Len(lines[i]) > 0 /\ lines[i][1] = "!")

(***************************************************************************)
(* commands.js: prepareParser, parseCommands and the deferred dispatch     *)
(***************************************************************************)
\* config.core.username
Username == <<"b", "o", "t">>

\* 'command#' + command.command, 'command#ERROR' and 'error'
CommandEvent(name) == <<"command#">> \o name

ErrorEvent == <<"command#", "E", "R", "R", "O", "R">>

GenericError == <<"error">>

\* events.emit(name, ...) returns whether the event had a subscriber
Emit(name) == name \in listeners

\* prepareParser(events, callback): build the mention regexp, keep the emitter
PrepareParser ==
    /\ ~mention.set
    /\ ~post.given
    /\ mention' = [set |-> TRUE, name |-> Username]
    /\ UNCHANGED <<listeners, post, parseCbs, immediates, emitted, cmdThrew, crashed>>

\* a parseCommands that emits the events of its commands before it returns
ParseCommandsEager(p, hasCallback) ==
    /\ ~post.given
    /\ post' = [given |-> TRUE, some |-> p.some, raw |-> p.raw]
    /\ IF ~hasCallback
       THEN /\ cmdThrew' = TRUE
            /\ UNCHANGED <<parseCbs, emitted>>
       ELSE IF ~p.some \/ p.raw = << >>
       THEN /\ parseCbs' = Append(parseCbs, << >>)
            /\ UNCHANGED <<emitted, cmdThrew>>
       ELSE IF ~mention.set
       THEN /\ cmdThrew' = TRUE
            /\ UNCHANGED <<parseCbs, emitted>>
       ELSE LET commands == parseLines(mention.name, LinesOf(p.raw))
            IN  /\ emitted' = emitted \o
                      Concat([i \in 1..Len(commands) |->
                                 << [event |-> CommandEvent(commands[i].command), idx |-> i,
                                     command |-> commands[i],
                                     handled |-> Emit(CommandEvent(commands[i].command))] >>])
                /\ parseCbs' = Append(parseCbs, commands)
                /\ UNCHANGED cmdThrew
    /\ UNCHANGED <<mention, listeners, immediates, crashed>>

\* parseCommands(post, callback)
ParseCommands(p, hasCallback) ==
    /\ ~post.given
    /\ post' = [given |-> TRUE, some |-> p.some, raw |-> p.raw]
    /\ IF ~hasCallback
       THEN /\ cmdThrew' = TRUE
            /\ UNCHANGED <<parseCbs, immediates>>
       ELSE IF ~p.some \/ p.raw = << >>
       THEN /\ parseCbs' = Append(parseCbs, << >>)
            /\ UNCHANGED <<immediates, cmdThrew>>
       ELSE IF ~mention.set /\ NeedsMention(LinesOf(p.raw))
       THEN /\ cmdThrew' = TRUE
            /\ UNCHANGED <<parseCbs, immediates>>
       ELSE LET commands == parseLines(mention.name, LinesOf(p.raw))
            IN  /\ immediates' = immediates \o
                      [i \in 1..Len(commands) |-> [idx |-> i, command |-> commands[i]]]
                /\ parseCbs' = Append(parseCbs, commands)
                /\ UNCHANGED cmdThrew
    /\ UNCHANGED <<mention, listeners, emitted, crashed>>

\* a dispatch that falls back to command#ERROR without looking at what
\* the emit of the command's own event returned
DispatchEmitsUnconditional(im) ==
    LET command == im.command
        named == [event |-> CommandEvent(command.command), idx |-> im.idx,
                  command |-> command, handled |-> Emit(CommandEvent(command.command))]
        fallback == [event |-> ErrorEvent, idx |-> im.idx, command |-> command,
                     handled |-> Emit(ErrorEvent)]
    IN  IF command.mention = NoMention THEN << named, fallback >> ELSE << named >>

\* a dispatch that falls back for commands with a mention as well
DispatchEmitsAnyMention(im) ==
    LET command == im.command
        named == [event |-> CommandEvent(command.command), idx |-> im.idx,
                  command |-> command, handled |-> Emit(CommandEvent(command.command))]
        fallback == [event |-> ErrorEvent, idx |-> im.idx, command |-> command,
                     handled |-> Emit(ErrorEvent)]
        generic == [event |-> GenericError, idx |-> im.idx, command |-> command,
                    handled |-> Emit(GenericError)]
    IN  IF ~named.handled
        THEN IF ~fallback.handled
             THEN << named, fallback, generic >>
             ELSE << named, fallback >>
        ELSE << named >>

\* the events one deferred dispatch emits, with what emit returned
DispatchEmits(im) ==
    LET command == im.command
        named == [event |-> CommandEvent(command.command), idx |-> im.idx,
                  command |-> command, handled |-> Emit(CommandEvent(command.command))]
        fallback == [event |-> ErrorEvent, idx |-> im.idx, command |-> command,
                     handled |-> Emit(ErrorEvent)]
        generic == [event |-> GenericError, idx |-> im.idx, command |-> command,
                    handled |-> Emit(GenericError)]
    IN  IF ~named.handled /\ command.mention = NoMention
        THEN IF ~fallback.handled
             THEN << named, fallback, generic >>
             ELSE << named, fallback >>
        ELSE << named >>

\* the setImmediate callback of one parsed command; internals.events is
\* null until prepareParser, so the first emit throws then, and an `error`
\* event nobody listens to is thrown by the emitter
Dispatch ==
    /\ ~crashed
    /\ immediates # << >>
    /\ immediates' = Tail(immediates)
    /\ IF ~mention.set
       THEN /\ crashed' = TRUE
            /\ UNCHANGED emitted
       ELSE /\ emitted' = emitted \o DispatchEmits(Head(immediates))
            /\ crashed' = \E i \in 1..Len(DispatchEmits(Head(immediates))) :
                              /\ DispatchEmits(Head(immediates))[i].event = GenericError
                              /\ ~DispatchEmits(Head(immediates))[i].handled
    /\ UNCHANGED <<mention, listeners, post, parseCbs, cmdThrew>>

(***************************************************************************)
(* The posts handed to parseCommands                                       *)
(***************************************************************************)
Pieces == { <<"!">>, <<"@", "B", "o", "t">>, <<"@", "B", "o", "t", " ">>, <<"a", "b">>,
            <<"a", "B", "c">>, <<"!", "a", "B", "c">>, <<" ">>, <<"\n">> }

RECURSIVE Texts(_)
Texts(n) ==
    IF n = 0 THEN { << >> }
    ELSE LET shorter == Texts(n - 1)
         IN  shorter \cup { t \o q : t \in shorter, q \in Pieces }

Posts == { [some |-> FALSE, raw |-> << >>] }
         \cup { [some |-> TRUE, raw |-> t] : t \in Texts(MaxPieces) }

\* the posts tried without a callback or before prepareParser
ShortPosts == { [some |-> FALSE, raw |-> << >>] }
              \cup { [some |-> TRUE, raw |-> t] : t \in Texts(2) }

\* the events the host may subscribe to
Subscribable == { CommandEvent(<<"a", "b", "c">>), ErrorEvent }

\* SpecCmd: one post parsed and dispatched
InitCmd ==
    /\ SchedInit(0)
    /\ mention = [set |-> FALSE, name |-> << >>]
    /\ listeners \in SUBSET (Subscribable \cup {GenericError})
    /\ post = [given |-> FALSE, some |-> FALSE, raw |-> << >>]
    /\ parseCbs = << >>
    /\ immediates = << >>
    /\ emitted = << >>
    /\ cmdThrew = FALSE
    /\ crashed = FALSE
    /\ CleanIdle

NextCmd ==
    \/ PrepareParser /\ UNCHANGED nonCmd
    \/ /\ ~post.given
       /\ mention.set
       /\ \E p \in Posts : ParseCommands(p, TRUE)
       /\ UNCHANGED nonCmd
    \/ /\ ~post.given
       /\ \E p \in ShortPosts, hasCallback \in BOOLEAN : ParseCommands(p, hasCallback)
       /\ UNCHANGED nonCmd
    \/ Dispatch /\ UNCHANGED nonCmd

SpecCmd == InitCmd /\ [][NextCmd]_vars

(***************************************************************************)
(* Reading a parsed post                                                   *)
(***************************************************************************)
\* the list parseCommands handed to its callback for a post with text
ParsedList == parseCbs[1]

Parsed == post.given /\ post.some /\ post.raw # << >> /\ parseCbs # << >>

\* length of the run of non-whitespace characters a text starts with
RunLen(str) ==
    IF \E i \in 1..Len(str) : IsWs(str[i])
    THEN (CHOOSE i \in 1..Len(str) : IsWs(str[i]) /\ \A m \in 1..(i - 1) : ~IsWs(str[m])) - 1
    ELSE Len(str)

NonWs(str) == SelectSeq(str, LAMBDA ch : ~IsWs(ch))

StartsWithBang(line) == Len(line) > 0 /\ line[1] = "!"

InputsOf(cmds) == [i \in 1..Len(cmds) |-> cmds[i].input]

\* the words of a command line after its first `skip` words are its arguments
ArgsAre(cmd, rest) ==
    /\ Concat(cmd.args) = NonWs(rest)
    /\ \A i \in 1..Len(cmd.args) : cmd.args[i] # << >> /\ NonWs(cmd.args[i]) = cmd.args[i]
    /\ Len(cmd.args) = Cardinality({ i \in 1..Len(rest) :
                            ~IsWs(rest[i]) /\ (i = 1 \/ IsWs(rest[i - 1])) })

(***************************************************************************)
(* C7: a line starting with `!` yields a command exactly when `!` is       *)
(* followed by a run of at least 3 non-whitespace characters; the command  *)
(* is that run in lower case, the arguments are the words after it, input  *)
(* is the line and there is no mention.  `!ab aBc` yields nothing,         *)
(* `!aBc ab` yields command abc with arguments [ab].                       *)
(***************************************************************************)
C7_ShortForm ==
    Parsed =>
        LET lines == LinesOf(post.raw)
            short == SelectSeq(ParsedList, LAMBDA c : c.mention = NoMention)
            expected == SelectSeq(lines, LAMBDA l : StartsWithBang(l) /\ RunLen(Tail(l)) >= 3)
        IN  /\ InputsOf(short) = expected
            /\ \A i \in 1..Len(short) :
                  LET l == short[i].input
                      n == RunLen(Tail(l))
                  IN  /\ short[i].command = ToLowerCase(SubSeq(l, 2, n + 1))
                      /\ ArgsAre(short[i], SubSeq(l, n + 2, Len(l)))
            /\ post.raw = <<"!", "a", "b", " ", "a", "B", "c">> => ParsedList = << >>
            /\ post.raw = <<"!", "a", "B", "c", " ", "a", "b">> =>
                  ParsedList = << [input |-> <<"!", "a", "B", "c", " ", "a", "b">>,
                                   command |-> <<"a", "b", "c">>,
                                   args |-> << <<"a", "b">> >>,
                                   mention |-> NoMention] >>

C7_Witness ==
    /\ Parsed
    /\ post.raw = <<"!", "a", "B", "c", " ", "a", "b">>
    /\ Len(ParsedList) = 1
    /\ ParsedList[1].command = <<"a", "b", "c">>

(***************************************************************************)
(* C8 as claimed: the line `@Bot ab aBc` (bot name matched without regard  *)
(* to case, command word `ab` of two characters like `do`) yields command  *)
(* ab, arguments [aBc], the mention text and input `!ab aBc`.              *)
(***************************************************************************)
C8_AsClaimed ==
    (Parsed /\ mention.set /\ post.raw = <<"@", "B", "o", "t", " ", "a", "b", " ", "a", "B", "c">>) =>
        ParsedList = << [input |-> <<"!", "a", "b", " ", "a", "B", "c">>,
                         command |-> <<"a", "b">>,
                         args |-> << <<"a", "B", "c">> >>,
                         mention |-> <<"@", "B", "o", "t">>] >>

\* `@` + the bot name in any case + one whitespace + a word of at least 3
IsMentionLine(l) ==
    LET n == Len(Username)
    IN  /\ Len(l) >= n + 2
        /\ l[1] = "@"
        /\ ToLowerCase(SubSeq(l, 2, n + 1)) = ToLowerCase(Username)
        /\ IsWs(l[n + 2])
        /\ RunLen(SubSeq(l, n + 3, Len(l))) >= 3

(***************************************************************************)
(* C8 amended: a line `@BotName word args` whose command word has at least *)
(* 3 characters yields the command word in lower case, its arguments, the  *)
(* mention text as written and input `!word args`; a mention line with a   *)
(* shorter command word (`@Bot ab aBc`, like `@BotName do thing`) yields   *)
(* no command.                                                             *)
(***************************************************************************)
C8_MentionForm ==
    (Parsed /\ mention.set) =>
        LET lines == LinesOf(post.raw)
            ment == SelectSeq(ParsedList, LAMBDA c : c.mention # NoMention)
            expected == SelectSeq(lines, LAMBDA l : ~StartsWithBang(l) /\ IsMentionLine(l))
        IN  /\ Len(ment) = Len(expected)
            /\ \A i \in 1..Len(ment) :
                  LET l == expected[i]
                      n == Len(Username)
                      w == RunLen(SubSeq(l, n + 3, Len(l)))
                      word == ToLowerCase(SubSeq(l, n + 3, n + 2 + w))
                  IN  /\ ment[i].mention = SubSeq(l, 1, n + 1)
                      /\ ment[i].command = word
                      /\ ArgsAre(ment[i], SubSeq(l, n + 3 + w, Len(l)))
                      /\ ment[i].input = <<"!">> \o JoinSpace(<<word>> \o ment[i].args)
            /\ post.raw = <<"@", "B", "o", "t", " ", "a", "b", " ", "a", "B", "c">> =>
                  ParsedList = << >>
            /\ post.raw = <<"@", "B", "o", "t", " ", "a", "B", "c", " ", "a", "b">> =>
                  ParsedList = << [input |-> <<"!", "a", "b", "c", " ", "a", "b">>,
                                   command |-> <<"a", "b", "c">>,
                                   args |-> << <<"a", "b">> >>,
                                   mention |-> <<"@", "B", "o", "t">>] >>

C8_Witness ==
    /\ Parsed
    /\ mention.set
    /\ post.raw = <<"@", "B", "o", "t", " ", "a", "B", "c", " ", "a", "b">>
    /\ Len(ParsedList) = 1
    /\ ParsedList[1].input = <<"!", "a", "b", "c", " ", "a", "b">>

(***************************************************************************)
(* C9: with the parser prepared, a dispatched command without a mention    *)
(* whose `command#<name>` has no subscriber gets `command#ERROR` emitted   *)
(* exactly once, and the generic `error` exactly once when `command#ERROR` *)
(* has no subscriber either (not at all when it has); a handled command    *)
(* gets neither.                                                           *)
(***************************************************************************)
EmitCount(idx, event) ==
    Cardinality({ i \in 1..Len(emitted) : emitted[i].idx = idx /\ emitted[i].event = event })

NumDispatched == IF Parsed THEN Len(ParsedList) - Len(immediates) ELSE 0

C9_DispatchFallback ==
    mention.set =>
    /\ \A i \in 1..Len(emitted) : emitted[i].idx <= NumDispatched
    /\ \A idx \in 1..NumDispatched :
          LET cmd == ParsedList[idx]
              handled == CommandEvent(cmd.command) \in listeners
          IN  /\ EmitCount(idx, CommandEvent(cmd.command)) = 1
              /\ handled =>
                    EmitCount(idx, ErrorEvent) = 0 /\ EmitCount(idx, GenericError) = 0
              /\ (~handled /\ cmd.mention = NoMention) =>
                    /\ EmitCount(idx, ErrorEvent) = 1
                    /\ EmitCount(idx, GenericError)
                          = (IF ErrorEvent \in listeners THEN 0 ELSE 1)

C9_Witness ==
    mention.set /\ \E idx \in 1..NumDispatched :
        /\ ParsedList[idx].mention = NoMention
        /\ CommandEvent(ParsedList[idx].command) \notin listeners
        /\ ErrorEvent \notin listeners
        /\ EmitCount(idx, ErrorEvent) = 1
        /\ EmitCount(idx, GenericError) = 1
        /\ idx >= 2

(***************************************************************************)
(* C11: parseCommands calls its callback once, in the call itself, with    *)
(* one command per recognised line in line order; no event is emitted in   *)
(* that step, every command is left to a later tick, and no later step     *)
(* (events handled or not, `error` thrown or not) calls the callback again *)
(* or changes the list.                                                    *)
(***************************************************************************)
\* the lines of a post that one of the two forms recognises
Recognised(raw) ==
    SelectSeq(LinesOf(raw), LAMBDA l : IF StartsWithBang(l) THEN RunLen(Tail(l)) >= 3
                                       ELSE IsMentionLine(l))

C20_MentionNoFallback ==
    mention.set =>
        \A idx \in 1..NumDispatched :
            ParsedList[idx].mention # NoMention =>
                /\ EmitCount(idx, CommandEvent(ParsedList[idx].command)) = 1
                /\ EmitCount(idx, ErrorEvent) = 0
                /\ EmitCount(idx, GenericError) = 0

\* a command with a mention was dispatched and nobody listens to its event
C20_Witness ==
    /\ mention.set
    /\ \E idx \in 1..NumDispatched :
          /\ ParsedList[idx].mention # NoMention
          /\ CommandEvent(ParsedList[idx].command) \notin listeners
          /\ ErrorEvent \notin listeners
          /\ EmitCount(idx, CommandEvent(ParsedList[idx].command)) = 1

(***************************************************************************)
(* browser.js: trustLevels and setTrustLevel                               *)
(***************************************************************************)
trustLevels == [owner |-> 9, admin |-> 8, moderator |-> 7, staff |-> 6,
                tl4 |-> 4, tl3 |-> 3, tl2 |-> 2, tl1 |-> 1, tl0 |-> 0, ignored |-> 0]

\* config.core.owner and config.core.ignoreUsers
Owner == "ann"

IgnoreUsers == <<"zoe", "ann">>

\* arr.indexOf(x) >= 0
Includes(arr, x) == \E i \in 1..Len(arr) : arr[i] = x

\* a classification that looks at the moderator flag before the admin flag
setTrustLevelModeratorFirst(p) ==
    IF p.username = Owner THEN [p EXCEPT !.trust_level = trustLevels.owner]
    ELSE IF p.moderator THEN [p EXCEPT !.trust_level = trustLevels.moderator]
    ELSE IF p.admin THEN [p EXCEPT !.trust_level = trustLevels.admin]
    ELSE IF p.staff THEN [p EXCEPT !.trust_level = trustLevels.staff]
    ELSE IF Includes(IgnoreUsers, p.username)
    THEN [p EXCEPT !.trust_level = trustLevels.ignored]
    ELSE p

setTrustLevel(p) ==
    IF p.username = Owner THEN [p EXCEPT !.trust_level = trustLevels.owner]
    ELSE IF p.admin THEN [p EXCEPT !.trust_level = trustLevels.admin]
    ELSE IF p.moderator THEN [p EXCEPT !.trust_level = trustLevels.moderator]
    ELSE IF p.staff THEN [p EXCEPT !.trust_level = trustLevels.staff]
    ELSE IF Includes(IgnoreUsers, p.username)
    THEN [p EXCEPT !.trust_level = trustLevels.ignored]
    ELSE p

SetTrustLevel ==
    /\ Len(itemLog) < MaxTrustCalls
    /\ item' = setTrustLevel(item)
    /\ itemLog' = Append(itemLog, "setTrustLevel")
    /\ UNCHANGED item0

\* the posts whose trust level is normalised
Usernames == {"ann", "zoe", "bob"}

DiscourseTrust == 0..4

TrustItems ==
    { [NoItem EXCEPT !.username = u, !.admin = a, !.moderator = m, !.staff = s,
                     !.trust_level = t] :
        u \in Usernames, a \in BOOLEAN, m \in BOOLEAN, s \in BOOLEAN, t \in DiscourseTrust }

\* SpecTrust: setTrustLevel applied to one post
InitTrust ==
    /\ SchedInit(0)
    /\ CmdIdle
    /\ item \in TrustItems
    /\ item0 = item
    /\ itemLog = << >>

NextTrust == SetTrustLevel /\ UNCHANGED nonClean

SpecTrust == InitTrust /\ [][NextTrust]_vars

\* the classification rules in the order of the documentation: the first
\* that matches the post as handed in gives the trust level
TrustRules(p) ==
    << [match |-> p.username = Owner, level |-> 9],
       [match |-> p.admin, level |-> 8],
       [match |-> p.moderator, level |-> 7],
       [match |-> p.staff, level |-> 6],
       [match |-> \E i \in 1..Len(IgnoreUsers) : IgnoreUsers[i] = p.username, level |-> 0] >>

(***************************************************************************)
(* C10: the trust level after setTrustLevel is that of the first matching  *)
(* rule in the order owner, admin, moderator, staff, ignored; a post       *)
(* flagged admin and moderator (not the owner's) gets admin; when no rule  *)
(* matches the trust level is the one handed in.  Nothing else changes.    *)
(***************************************************************************)
C10_TrustPrecedence ==
    itemLog # << >> =>
        LET rules == TrustRules(item0)
            hits == { i \in 1..Len(rules) : rules[i].match }
        IN  /\ hits # {} =>
                  item.trust_level = rules[CHOOSE i \in hits : \A j \in hits : i <= j].level
            /\ hits = {} => item.trust_level = item0.trust_level
            /\ (item0.admin /\ item0.moderator /\ item0.username # Owner) =>
                  item.trust_level = 8
            /\ item = [item0 EXCEPT !.trust_level = item.trust_level]

C10_Witness ==
    /\ itemLog # << >>
    /\ item0.admin /\ item0.moderator /\ item0.username # Owner
    /\ item0.trust_level = 2
    /\ item.trust_level = 8


(***************************************************************************)
(* browser.js: cleanPostRaw, its regular expressions on character          *)
(* sequences.  A match operator gives the index where the match starting   *)
(* at p ends, or 0 when the expression does not match at p.                *)
(***************************************************************************)
\* the backtick, which a string of the model cannot hold
BT == "BT"

\* the control characters \x02, \x03, \x10 and \x1a
STX == "STX"
ETX == "ETX"
DLE == "DLE"
SUB == "SUB"

\* [\x00-\x08\x0b-\x1f] within the alphabet of the model
IsCtl(ch) == ch \in {STX, ETX, DLE, SUB, "\r", "\f"}

MinOf(S) == CHOOSE x \in S : \A y \in S : x <= y

MaxOf(S) == CHOOSE x \in S : \A y \in S : x >= y

\* ^ under the m flag
LineStart(text, p) == p = 1 \/ text[p - 1] = "\n"

\* k times the character ch from position p on
IsRun(text, p, k, ch) ==
    /\ p + k - 1 <= Len(text)
    /\ \A i \in p..(p + k - 1) : text[i] = ch

\* the position of the first \n at or after p, 0 when there is none
EndOfLine(text, p) ==
    LET ns == { i \in p..Len(text) : text[i] = "\n" }
    IN  IF ns = {} THEN 0 ELSE MinOf(ns)

\* /\r\n?/g
newline(text, p) ==
    IF text[p] # "\r" THEN 0
    ELSE IF p < Len(text) /\ text[p + 1] = "\n" THEN p + 1 ELSE p

\* /[\x00-\x08\x0b-\x1f]/g -> ''
StripControls(text) == SelectSeq(text, LAMBDA ch : ~IsCtl(ch))

\* code.replace(/\[(?!\x10)/g, '[\x10')
hidetags(code) ==
    Concat([i \in 1..Len(code) |->
               IF code[i] = "[" /\ ~(i < Len(code) /\ code[i + 1] = DLE)
               THEN << "[", DLE >>
               ELSE << code[i] >>])

\* what a replace puts in the place of the match m: '\n', hidetags(m),
\* '\x02$&', '$&\x03', '\x1a', '$1 `' and ''
Replacement(how, m) ==
    CASE how = "newline" -> << "\n" >>
      [] how = "hidetags" -> hidetags(m)
      [] how = "STX$&" -> << STX >> \o m
      [] how = "$&ETX" -> m \o << ETX >>
      [] how = "SUB" -> << SUB >>
      [] how = "$1 BT" -> SubSeq(m, 1, Len(m) - 2) \o << " ", BT >>
      [] how = "" -> << >>

\* the matches of an expression in a text of length n under the g flag, as
\* <<first, last>>, from ends[p], the end of its match at p or 0: leftmost
\* first, each search starting where the last match ended
Matches(ends, n) ==
    LET scan[p \in 1..(n + 1)] ==
            IF p > n THEN {}
            ELSE IF ends[p] > 0
            THEN { <<p, ends[p]>> } \cup scan[ends[p] + 1]
            ELSE scan[p + 1]
    IN  scan[1]

\* the text with each of the matches ms replaced
Splice(text, ms, how) ==
    LET build[p \in 1..(Len(text) + 1)] ==
            IF \A m \in ms : m[1] < p THEN SubSeq(text, p, Len(text))
            ELSE LET m == CHOOSE m \in ms : m[1] >= p /\ \A o \in ms : o[1] >= p => m[1] <= o[1]
                 IN  SubSeq(text, p, m[1] - 1) \o Replacement(how, SubSeq(text, m[1], m[2]))
                         \o build[m[2] + 1]
    IN  build[1]

\* str.replace(re, how) under the g flag
ReplaceAll(text, ends, how) == Splice(text, Matches(ends, Len(text)), how)

\* ```(?:\n|$) at a line start: the line that closes a fenced block
ClosesFence(text, c) ==
    /\ LineStart(text, c)
    /\ IsRun(text, c, 3, BT)
    /\ (c + 3 > Len(text) \/ text[c + 3] = "\n")

FenceEnd(text, c) == IF c + 3 > Len(text) THEN c + 2 ELSE c + 3

\* the closing lines after the line that position p is on
ClosingLines(text, p) ==
    { c \in (EndOfLine(text, p) + 1)..Len(text) : ClosesFence(text, c) }

\* /^````.*\n(?:.*\n)*```(?:\n|$)/gm: up to the last closing line
fencedgreedy(text, p) ==
    IF /\ LineStart(text, p)
       /\ IsRun(text, p, 4, BT)
       /\ EndOfLine(text, p) > 0
       /\ ClosingLines(text, p) # {}
    THEN FenceEnd(text, MaxOf(ClosingLines(text, p)))
    ELSE 0

\* /^```(?:[^`\n].*)?\n(?:.*\n)*?```(?:\n|$)/gm: up to the first closing line
fencedlazy(text, p) ==
    IF /\ LineStart(text, p)
       /\ IsRun(text, p, 3, BT)
       /\ p + 3 <= Len(text)
       /\ text[p + 3] # BT
       /\ EndOfLine(text, p) > 0
       /\ ClosingLines(text, p) # {}
    THEN FenceEnd(text, MinOf(ClosingLines(text, p)))
    ELSE 0

\* the length of the run of backticks that starts at p
Backticks(text, p) ==
    MinOf({ i \in p..(Len(text) + 1) : i > Len(text) \/ text[i] # BT }) - p

\* /(`+)[^]*?\1/g: the longest opening run that occurs again, up to its
\* first recurrence
inline(text, p) ==
    IF text[p] # BT THEN 0
    ELSE LET n == Backticks(text, p)
             Again(k) == { q \in (p + k)..Len(text) : IsRun(text, q, k, BT) }
             ks == { k \in 1..n : Again(k) # {} }
         IN  IF ks = {} THEN 0 ELSE MinOf(Again(MaxOf(ks))) + MaxOf(ks) - 1

\* the text at p is `word` without regard to case (the i flag)
LowerIs(text, p, word) ==
    /\ p + Len(word) - 1 <= Len(text)
    /\ \A i \in 1..Len(word) : ToLowerCh(text[p + i - 1]) = word[i]

\* /\[quote(?:=[^[\]]*)?]/ig
openTag(text, p) ==
    IF ~LowerIs(text, p, <<"[", "q", "u", "o", "t", "e">>) \/ p + 6 > Len(text) THEN 0
    ELSE IF text[p + 6] = "]" THEN p + 6
    ELSE IF text[p + 6] # "=" THEN 0
    ELSE LET bs == { r \in (p + 7)..Len(text) : text[r] \in {"[", "]"} }
         IN  IF bs # {} /\ text[MinOf(bs)] = "]" THEN MinOf(bs) ELSE 0

\* /\[\/quote]/ig
closeTag(text, p) ==
    IF LowerIs(text, p, <<"[", "/", "q", "u", "o", "t", "e", "]">>) THEN p + 7 ELSE 0

\* /\x02[^\x02\x03]*\x03/g: a start tag with its end tag and no tag between
innerPair(text, p) ==
    IF text[p] # STX THEN 0
    ELSE LET bs == { r \in (p + 1)..Len(text) : text[r] \in {STX, ETX} }
         IN  IF bs # {} /\ text[MinOf(bs)] = ETX THEN MinOf(bs) ELSE 0

\* one pass of the replacement instead of the loop
StripNestedOnce(text) ==
    ReplaceAll(text, [p \in 1..Len(text) |-> innerPair(text, p)], "SUB")

\* do { text = edited; edited = text.replace(...) } while (edited !== text)
RECURSIVE StripNested(_)
StripNested(text) ==
    LET edited == ReplaceAll(text, [p \in 1..Len(text) |-> innerPair(text, p)], "SUB")
    IN  IF edited = text THEN text ELSE StripNested(edited)

\* mutant: a start tag without its end tag takes the rest of the text with it
unbalancedToEnd(text, p) ==
    IF text[p] # STX THEN 0 ELSE Len(text)

\* /\x02[^\x1a]*\x1a/g: a start tag up to the next place a block was removed
unbalanced(text, p) ==
    IF text[p] # STX THEN 0
    ELSE LET bs == { r \in (p + 1)..Len(text) : text[r] = SUB }
         IN  IF bs = {} THEN 0 ELSE MinOf(bs)

\* /^(`+)\x1a`/gm
coalesced(text, p) ==
    IF ~LineStart(text, p) \/ text[p] # BT THEN 0
    ELSE LET n == Backticks(text, p)
         IN  IF /\ p + n + 1 <= Len(text)
                /\ text[p + n] = SUB
                /\ text[p + n + 1] = BT
             THEN p + n + 1
             ELSE 0

\* the raw text with its newlines normalised and its control characters removed
normalise(raw) ==
    StripControls(ReplaceAll(raw, [p \in 1..Len(raw) |-> newline(raw, p)], "newline"))

\* the text with the tags inside its code blocks hidden
HideCode(normal) ==
    LET greedy == ReplaceAll(normal, [p \in 1..Len(normal) |-> fencedgreedy(normal, p)],
                             "hidetags")
        lazy == ReplaceAll(greedy, [p \in 1..Len(greedy) |-> fencedlazy(greedy, p)],
                           "hidetags")
    IN  ReplaceAll(lazy, [p \in 1..Len(lazy) |-> inline(lazy, p)], "hidetags")

\* the text with STX before its start tags and ETX after its end tags
MarkTags(hidden) ==
    LET opened == ReplaceAll(hidden, [p \in 1..Len(hidden) |-> openTag(hidden, p)], "STX$&")
    IN  ReplaceAll(opened, [p \in 1..Len(opened) |-> closeTag(opened, p)], "$&ETX")

\* the text without its leftover unbalanced blocks and control characters
StripLeftover(text) ==
    LET balanced == ReplaceAll(text, [p \in 1..Len(text) |-> unbalanced(text, p)], "SUB")
    IN  StripControls(ReplaceAll(balanced,
                                 [p \in 1..Len(balanced) |-> coalesced(balanced, p)],
                                 "$1 BT"))

\* the text without its fenced code blocks
RemoveFenced(stripped) ==
    LET greedy == ReplaceAll(stripped, [p \in 1..Len(stripped) |-> fencedgreedy(stripped, p)],
                             "")
    IN  ReplaceAll(greedy, [p \in 1..Len(greedy) |-> fencedlazy(greedy, p)], "")

\* the text cleanPostRaw stores in post.cleaned
cleanPostRaw(raw) ==
    RemoveFenced(StripLeftover(StripNested(MarkTags(HideCode(normalise(raw))))))

\* cleanPostRaw(post): post.cleaned is set, post.raw is left as it was
CleanPostRaw ==
    /\ itemLog = << >>
    /\ item' = [item EXCEPT !.cleaned = cleanPostRaw(item.raw), !.hasCleaned = TRUE]
    /\ itemLog' = Append(itemLog, "cleanPostRaw")
    /\ UNCHANGED item0

(***************************************************************************)
(* The raw texts handed to cleanPostRaw.  The i-th piece of a text takes   *)
(* its capital letter from position i, so that a letter tells where it     *)
(* stood in the raw text.                                                  *)
(***************************************************************************)
Letters == <<"A", "B", "C", "D", "E", "F", "G", "H">>

Open == <<"[", "q", "u", "o", "t", "e", "]">>

Close == <<"[", "/", "q", "u", "o", "t", "e", "]">>

OpenNamed == <<"[", "Q", "u", "o", "t", "e", "=", "x", "]">>

CloseCapital == <<"[", "/", "Q", "u", "o", "t", "e", "]">>

Fence == <<BT, BT, BT, "\n">>

LongFence == <<BT, BT, BT, BT, "\n">>

\* text, quote tags and backticks
QuotePieces(i) ==
    { <<Letters[i]>>, <<Letters[i]>> \o Open, <<Letters[i]>> \o Close, OpenNamed, <<BT>> }

\* lines, fence lines, quote blocks and quote tags
FencePieces(i) ==
    { <<Letters[i], "\n">>, Fence, LongFence, Open \o <<Letters[i]>> \o Close,
      Open, CloseCapital }

RECURSIVE QuoteTextsOf(_)
QuoteTextsOf(n) ==
    IF n = 0 THEN { << >> }
    ELSE { t \o q : t \in QuoteTextsOf(n - 1), q \in QuotePieces(n) }

RECURSIVE FenceTextsOf(_)
FenceTextsOf(n) ==
    IF n = 0 THEN { << >> }
    ELSE { t \o q : t \in FenceTextsOf(n - 1), q \in FencePieces(n) }

RawTexts ==
    UNION { QuoteTextsOf(n) : n \in 0..MaxQuotePieces }
    \cup UNION { FenceTextsOf(n) : n \in 0..MaxFencePieces }

\* SpecClean: cleanPostRaw applied to one post
InitClean ==
    /\ SchedInit(0)
    /\ CmdIdle
    /\ \E t \in RawTexts : item = [NoItem EXCEPT !.raw = t]
    /\ item0 = item
    /\ itemLog = << >>

NextClean == CleanPostRaw /\ UNCHANGED nonClean

SpecClean == InitClean /\ [][NextClean]_vars


(***************************************************************************)
(* Reading a cleaned post                                                  *)
(***************************************************************************)
HasBacktick(text) == \E i \in 1..Len(text) : text[i] = BT

\* the quote tags of the text from p on are balanced, d blocks being open
RECURSIVE BalancedFrom(_, _, _)
BalancedFrom(text, p, d) ==
    IF p > Len(text) THEN d = 0
    ELSE IF openTag(text, p) > 0 THEN BalancedFrom(text, openTag(text, p) + 1, d + 1)
    ELSE IF closeTag(text, p) > 0
    THEN d > 0 /\ BalancedFrom(text, closeTag(text, p) + 1, d - 1)
    ELSE BalancedFrom(text, p + 1, d)

\* the characters from p on that stand outside every quote block
RECURSIVE OutsideFrom(_, _, _)
OutsideFrom(text, p, d) ==
    IF p > Len(text) THEN << >>
    ELSE IF openTag(text, p) > 0 THEN OutsideFrom(text, openTag(text, p) + 1, d + 1)
    ELSE IF closeTag(text, p) > 0 THEN OutsideFrom(text, closeTag(text, p) + 1, d - 1)
    ELSE (IF d = 0 THEN << text[p] >> ELSE << >>) \o OutsideFrom(text, p + 1, d)

NestedExample ==
    <<"A">> \o Open \o <<"B">> \o Open \o <<"C">> \o Close \o <<"D">> \o Close \o <<"E">>

(***************************************************************************)
(* C5: for a raw text without code whose quote tags are balanced, nested   *)
(* to any depth, the cleaned text is the raw text without its quote blocks *)
(* and all they contain: what stands outside every block is kept, in       *)
(* order.  `A[quote]B[quote]C[/quote]D[/quote]E` gives `AE`.               *)
(***************************************************************************)
C5_NestedQuotes ==
    (item.hasCleaned /\ ~HasBacktick(item.raw) /\ BalancedFrom(item.raw, 1, 0)) =>
        /\ item.cleaned = OutsideFrom(item.raw, 1, 0)
        /\ item.raw = NestedExample => item.cleaned = <<"A", "E">>

C5_Witness ==
    /\ item.hasCleaned
    /\ item.raw = NestedExample
    /\ item.cleaned = <<"A", "E">>

\* the positions of the normalised raw text that lie in a fenced code block
InFence(text) ==
    LET ms == Matches([p \in 1..Len(text) |-> fencedgreedy(text, p)], Len(text))
              \cup Matches([p \in 1..Len(text) |-> fencedlazy(text, p)], Len(text))
    IN  { i \in 1..Len(text) : \E m \in ms : m[1] <= i /\ i <= m[2] }

IsLetter(ch) == \E i \in 1..Len(Letters) : Letters[i] = ch

\* the text with the quote tags inside its fenced code blocks made plain text
Neutral(text) ==
    LET fenced == InFence(text)
    IN  [i \in 1..Len(text) |->
            IF i \in fenced /\ (openTag(text, i) > 0 \/ closeTag(text, i) > 0)
            THEN "(" ELSE text[i]]

Unbracket(text) == [i \in 1..Len(text) |-> IF text[i] = "[" THEN "(" ELSE text[i]]

\* quote tags inside fenced code are not read as tags: the cleaned text is
\* the one the same raw text gives with those tags made plain text
FencedTagsIgnored ==
    item.hasCleaned =>
        Unbracket(item.cleaned) = Unbracket(cleanPostRaw(Neutral(normalise(item.raw))))

\* nothing of a fenced code block of the raw text is left in the cleaned text
FencedCodeRemoved ==
    item.hasCleaned =>
        LET normal == normalise(item.raw)
        IN  \A i \in InFence(normal) :
                IsLetter(normal[i]) => \A j \in 1..Len(item.cleaned) : item.cleaned[j] # normal[i]

(***************************************************************************)
(* C6: quote tags inside a fenced code block are never read as the tags of *)
(* a quote block, and every complete fenced code block of the raw text is  *)
(* absent from the cleaned text.                                           *)
(***************************************************************************)
C6_FencedCode == FencedCodeRemoved /\ FencedTagsIgnored

\* a block fenced by three backticks that holds a line of four backticks
FenceExample == Fence \o <<"B", "\n">> \o LongFence \o Fence

\* the fenced line B of that block is left in the cleaned text
C6_Witness ==
    /\ item.hasCleaned
    /\ item.raw = FenceExample
    /\ item.cleaned = <<BT, BT, BT, "\n", "B", "\n">>

(***************************************************************************)
(* Reading quote tags without their end tags                               *)
(***************************************************************************)
\* the end of the block the start tag at p opens (the position after which the
\* scan stands at depth d below it), 0 when no end tag closes it
RECURSIVE BlockEnd(_, _, _)
BlockEnd(text, p, d) ==
    IF p > Len(text) THEN 0
    ELSE IF openTag(text, p) > 0 THEN BlockEnd(text, openTag(text, p) + 1, d + 1)
    ELSE IF closeTag(text, p) > 0
    THEN (IF d = 0 THEN closeTag(text, p) ELSE BlockEnd(text, closeTag(text, p) + 1, d - 1))
    ELSE BlockEnd(text, p + 1, d)

\* the start tag at p has its end tag
Terminated(text, p) == openTag(text, p) > 0 /\ BlockEnd(text, openTag(text, p) + 1, 0) > 0

\* the end of the first terminated quote block that starts at or after p
NextBlockEnd(text, p) ==
    LET qs == { q \in p..Len(text) : Terminated(text, q) }
    IN  IF qs = {} THEN 0 ELSE BlockEnd(text, openTag(text, MinOf(qs)) + 1, 0)

\* what is kept when a start tag without its end tag takes everything up to
\* and including the next quote block, and stays with its text when no quote
\* block follows
RECURSIVE KeptFrom(_, _)
KeptFrom(text, p) ==
    IF p > Len(text) THEN << >>
    ELSE IF Terminated(text, p) THEN KeptFrom(text, NextBlockEnd(text, p) + 1)
    ELSE IF openTag(text, p) > 0 /\ NextBlockEnd(text, p) > 0
    THEN KeptFrom(text, NextBlockEnd(text, p) + 1)
    ELSE << text[p] >> \o KeptFrom(text, p + 1)

\* what is kept when a start tag without its end tag takes the rest of the text
RECURSIVE KeptToEndFrom(_, _)
KeptToEndFrom(text, p) ==
    IF p > Len(text) THEN << >>
    ELSE IF Terminated(text, p)
    THEN KeptToEndFrom(text, BlockEnd(text, openTag(text, p) + 1, 0) + 1)
    ELSE IF openTag(text, p) > 0 THEN << >>
    ELSE << text[p] >> \o KeptToEndFrom(text, p + 1)

HasUnterminated(text) ==
    \E p \in 1..Len(text) : openTag(text, p) > 0 /\ ~Terminated(text, p)

UnterminatedExample ==
    <<"A">> \o Open \o <<"B">> \o Open \o <<"C">> \o Close \o <<"D">>

(***************************************************************************)
(* C16 as stated: in a raw text without code, a start tag without its end  *)
(* tag is removed with everything after it up to the end of the text,      *)
(* whether or not a quote block follows it.                                *)
(***************************************************************************)
C16_AsClaimed ==
    (item.hasCleaned /\ ~HasBacktick(item.raw) /\ HasUnterminated(item.raw)) =>
        item.cleaned = KeptToEndFrom(item.raw, 1)

(***************************************************************************)
(* C16: in a raw text without code, a start tag without its end tag is     *)
(* removed with everything after it up to and including the next quote     *)
(* block, the text after that block being kept; when no quote block        *)
(* follows it, the tag and the text after it are kept.                     *)
(* `A[quote]B[quote]C[/quote]D` gives `AD`.                                *)
(***************************************************************************)
C16_UnterminatedToNextBlock ==
    (item.hasCleaned /\ ~HasBacktick(item.raw) /\ HasUnterminated(item.raw)) =>
        /\ item.cleaned = KeptFrom(item.raw, 1)
        /\ item.raw = UnterminatedExample => item.cleaned = <<"A", "D">>

C16_Witness ==
    /\ item.hasCleaned
    /\ item.raw = UnterminatedExample
    /\ item.cleaned = <<"A", "D">>

(***************************************************************************)
(* browser.js: setPostUrl and cleanPost                                    *)
(***************************************************************************)
\* mutant: the post number is appended to the url the post already has
setPostUrlAppending(p) ==
    [p EXCEPT !.reply_to = p.url \o (IF p.reply_to_post_number = "null" THEN << >>
                                     ELSE <<p.reply_to_post_number>>),
              !.url = p.url \o <<p.post_number>>]

\* post.url, post.reply_to from the topic and post numbers of the post
setPostUrl(p) ==
    LET url == <<"forum", "/t/", p.topic_slug, "/", p.topic_id, "/">>
    IN  [p EXCEPT !.reply_to = url \o (IF p.reply_to_post_number = "null" THEN << >>
                                       ELSE <<p.reply_to_post_number>>),
                  !.url = url \o <<p.post_number>>]

\* cleanPostRaw(post); setTrustLevel(post); setPostUrl(post); return post
cleanPost(p) ==
    setPostUrl(setTrustLevel([p EXCEPT !.cleaned = cleanPostRaw(p.raw),
                                       !.hasCleaned = TRUE]))

(***************************************************************************)
(* browser.js: getPosts and getTopics                                      *)
(***************************************************************************)
\* the scheduler's clients of the other sections
clientVars == <<csrfHeader, loginSt, loginCbs, readIds, readSt, readCbs, readArg>>

\* a post as the forum sends it
FeedPost(username, raw, number, replyTo) ==
    [username |-> username, admin |-> FALSE, moderator |-> FALSE, staff |-> FALSE,
     trust_level |-> 1, raw |-> raw, hasCleaned |-> FALSE, cleaned |-> << >>,
     topic_slug |-> "slug", topic_id |-> "7", post_number |-> number,
     reply_to_post_number |-> replyTo, url |-> <<"undefined">>,
     reply_to |-> <<"undefined">>]

PostA == FeedPost("bob", <<"A">> \o Open \o <<"B">> \o Close, "1", "null")

PostB == FeedPost("zoe", <<"C">>, "2", "1")

\* topic2.post_stream.posts of a detail response
DetailBodies == { << >>, <<PostA>>, <<PostB, PostA>> }

TopicA == [id |-> "1"]

TopicB == [id |-> "2"]

\* topics.topic_list.more_topics_url: absent, or the locator of a page (the
\* same one again when it answers the request for that page: a cycle)
Locators == { << >>, <<"/", "more">> }

\* topics.topic_list of a page response
PageBodies ==
    { [topics |-> ts, more |-> m] : ts \in { << >>, <<TopicB, TopicA>> }, m \in Locators }

\* the history entry of a driver's task callback: the items and the locator
\* of the response it was called with
EvFeedCb(t, items, more) ==
    [e |-> "cb", id |-> t.id, kind |-> t.kind, err |-> t.err, form |-> t.form,
     body |-> t.body, items |-> items, more |-> more]

EvThrew(kind) == [e |-> "threw", id |-> 0, kind |-> kind, err |-> TRUE, form |-> << >>]

EvItem(e, f, err) ==
    [e |-> e, id |-> f.pos, kind |-> f.op, err |-> err, form |-> << >>,
     item |-> f.items[f.pos]]

\* setTimeout(() => eachPost(post, ...), 0)
ItemTimer(c, op) ==
    [fn |-> "item", class |-> c, id |-> 0, kind |-> op, form |-> << >>, delay |-> 0,
     err |-> FALSE, body |-> "none", raw |-> "none"]

\* a driver pushes a task of its own
FeedPush(c, f, kind, url, form, delay, evs) ==
    /\ feed' = [feed EXCEPT ![c] = f]
    /\ PushTask(c, Task(c, kind, url, form, TRUE, delay), evs)

\* the completion callback is called with err; `direct` when the driver calls
\* it itself, not through async.whilst (whose callback defaults to a no-op)
Complete(c, f, err, direct, evs) ==
    /\ feed' = [feed EXCEPT ![c] =
                  [f EXCEPT !.st = IF ~f.hasComplete /\ direct THEN "threw" ELSE "done"]]
    /\ events' = [events EXCEPT ![c] =
                    @ \o evs \o (IF f.hasComplete THEN <<EvComplete(f.op, err)>>
                                 ELSE IF direct THEN <<EvThrew(f.op)>>
                                 ELSE << >>)]
    /\ UNCHANGED <<tasks, nextId>>

\* mutant: a batch one identifier too long
ShiftPartTooLong(posts) == SubSeq(posts, 1, Min(ChunkSize + 1, Len(posts)))

\* while (part.length < 200 && posts.length > 0) part.push(posts.shift())
ShiftPart(posts) == SubSeq(posts, 1, Min(ChunkSize, Len(posts)))

ShiftRest(posts, part) == SubSeq(posts, Len(part) + 1, Len(posts))

\* one round of async.whilst in getPosts
WhilstPosts(c, f, evs) ==
    IF Len(f.posts) > 0
    THEN LET part == ShiftPart(f.posts)
         IN  FeedPush(c, [f EXCEPT !.posts = ShiftRest(f.posts, part), !.st = "fetch"],
                      "detail", <<"/", "t/posts.json?post_ids[]=">>, part, DelayOf(c), evs)
    ELSE Complete(c, f, FALSE, FALSE, evs)

\* mutant: a test that ends the loop at once
TopicsTestNever(url) == FALSE

\* async.whilst's test of getTopics: () => url
TopicsTest(url) == Len(url) > 0

\* one round of async.whilst in getTopics
WhilstTopics(c, f, evs) ==
    IF TopicsTest(f.url)
    THEN FeedPush(c, [f EXCEPT !.st = "fetch", !.pages = @ + 1],
                  "page", f.url, << >>, DelayOf(c), evs)
    ELSE Complete(c, f, FALSE, FALSE, evs)

Whilst(c, f, evs) == IF f.op = "posts" THEN WhilstPosts(c, f, evs) ELSE WhilstTopics(c, f, evs)

\* the environment runs one pagination driver in a behaviour
NoDriverYet == \A d \in Classes : feed[d].op = "none"

\* getPosts(topicId, eachPost, complete): the stream task, pushed without a delay
GetPosts(c, hasComplete) ==
    /\ opsLeft > 0
    /\ NoDriverYet
    /\ opsLeft' = opsLeft - 1
    /\ FeedPush(c, [FeedStart EXCEPT !.op = "posts", !.st = "stream",
                                    !.hasComplete = hasComplete],
                "stream", <<"/", "t/posts.json?post_ids=0">>, << >>, 0, << >>)
    /\ lastCall' = [op |-> "getPosts", class |-> c, hasCallback |-> hasComplete,
                    threw |-> FALSE, pushed |-> 1]
    /\ UNCHANGED <<running, inflight, timers, clientVars>>

\* getTopics(eachTopic, complete): async.whilst from the first page on
GetTopics(c, hasComplete) ==
    /\ opsLeft > 0
    /\ NoDriverYet
    /\ opsLeft' = opsLeft - 1
    /\ WhilstTopics(c, [FeedStart EXCEPT !.op = "topics", !.hasComplete = hasComplete,
                                        !.url = <<"/", "latest.json">>], << >>)
    /\ lastCall' = [op |-> "getTopics", class |-> c, hasCallback |-> hasComplete,
                    threw |-> FALSE, pushed |-> nextId'[c] - nextId[c]]
    /\ UNCHANGED <<running, inflight, timers, clientVars>>

\* mutant: the next round starts while the first item is still to be delivered
EachSeriesNoWait(c, f, items, evs, rest) ==
    /\ Whilst(c, [f EXCEPT !.items = items, !.pos = IF items = << >> THEN 0 ELSE 1], evs)
    /\ timers' = IF items = << >> THEN rest ELSE Append(rest, ItemTimer(c, f.op))

\* async.eachSeries(items, (item, itemNext) => setTimeout(...), next)
EachSeries(c, f, items, evs, rest) ==
    IF items = << >>
    THEN Whilst(c, f, evs) /\ timers' = rest
    ELSE /\ feed' = [feed EXCEPT ![c] = [f EXCEPT !.items = items, !.pos = 1, !.st = "items"]]
         /\ timers' = Append(rest, ItemTimer(c, f.op))
         /\ events' = [events EXCEPT ![c] = @ \o evs]
         /\ UNCHANGED <<tasks, nextId>>

\* a body that is not the decoded object has no post_stream / topic_list:
\* reading a property of undefined throws inside the timer callback
FeedThrew(c, evs, rest) ==
    /\ feed' = [feed EXCEPT ![c].st = "threw"]
    /\ events' = [events EXCEPT ![c] = @ \o evs \o <<EvThrew(feed[c].op)>>]
    /\ timers' = rest
    /\ UNCHANGED <<tasks, nextId>>

\* the stream task's callback
StreamCb(c, t, rest) ==
    IF t.err THEN Complete(c, feed[c], TRUE, TRUE, <<EvFeedCb(t, << >>, << >>)>>)
                  /\ timers' = rest
    ELSE IF t.body # "obj" THEN FeedThrew(c, <<EvFeedCb(t, << >>, << >>)>>, rest)
    ELSE /\ \E n \in IdCounts :
              WhilstPosts(c, [feed[c] EXCEPT !.stream = IdList(n), !.posts = IdList(n)],
                          <<EvFeedCb(t, << >>, << >>)>>)
         /\ timers' = rest

\* a detail task's callback
DetailCb(c, t, rest) ==
    IF t.err THEN Complete(c, feed[c], TRUE, FALSE, <<EvFeedCb(t, << >>, << >>)>>)
                  /\ timers' = rest
    ELSE IF t.body # "obj" THEN FeedThrew(c, <<EvFeedCb(t, << >>, << >>)>>, rest)
    ELSE \E posts \in DetailBodies :
             EachSeries(c, feed[c], [i \in 1..Len(posts) |-> cleanPost(posts[i])],
                        <<EvFeedCb(t, posts, << >>)>>, rest)

\* a page task's callback; a locator is followed for at most MaxPages pages
PageCb(c, t, rest) ==
    IF t.err THEN Complete(c, feed[c], TRUE, FALSE, <<EvFeedCb(t, << >>, << >>)>>)
                  /\ timers' = rest
    ELSE IF t.body # "obj" THEN FeedThrew(c, <<EvFeedCb(t, << >>, << >>)>>, rest)
    ELSE \E page \in PageBodies :
             /\ (page.more # << >> => feed[c].pages < MaxPages)
             /\ EachSeries(c, [feed[c] EXCEPT !.url = page.more], page.topics,
                           <<EvFeedCb(t, page.topics, page.more)>>, rest)

FireFeedCb(i) ==
    /\ i \in 1..Len(timers)
    /\ timers[i].fn = "cb"
    /\ timers[i].kind \in {"stream", "detail", "page"}
    /\ CanFire(i)
    /\ LET t == timers[i]
           rest == RemoveAt(timers, i)
       IN  CASE t.kind = "stream" -> StreamCb(t.class, t, rest)
             [] t.kind = "detail" -> DetailCb(t.class, t, rest)
             [] t.kind = "page"   -> PageCb(t.class, t, rest)
    /\ UNCHANGED <<running, inflight, opsLeft, clientVars, lastCall>>

\* the timer of an item fires: eachPost / eachTopic is called with the item
FireItem(i) ==
    /\ i \in 1..Len(timers)
    /\ timers[i].fn = "item"
    /\ CanFire(i)
    /\ LET c == timers[i].class
       IN  /\ feed' = [feed EXCEPT ![c].busy = TRUE]
           /\ events' = [events EXCEPT ![c] = Append(@, EvItem("item", feed[c], FALSE))]
    /\ timers' = RemoveAt(timers, i)
    /\ UNCHANGED <<tasks, running, inflight, nextId, opsLeft, clientVars, lastCall>>

\* mutant: the item callback's error is dropped
PostNextDropsError(error) == FALSE

\* (error) => postNext(error)
PostNext(error) == error

\* the caller's item callback signals completion, at once or later
ItemDone(c, error) ==
    /\ feed[c].busy
    /\ LET f == [feed[c] EXCEPT !.busy = FALSE]
           ev == EvItem("itemdone", feed[c], error)
       IN  IF PostNext(error)
           THEN Complete(c, f, TRUE, FALSE, <<ev>>) /\ UNCHANGED timers
           ELSE IF f.pos < Len(f.items)
           THEN /\ feed' = [feed EXCEPT ![c] = [f EXCEPT !.pos = @ + 1]]
                /\ timers' = Append(timers, ItemTimer(c, f.op))
                /\ events' = [events EXCEPT ![c] = Append(@, ev)]
                /\ UNCHANGED <<tasks, nextId>>
           ELSE Whilst(c, [f EXCEPT !.items = << >>, !.pos = 0], <<ev>>) /\ UNCHANGED timers
    /\ UNCHANGED <<running, inflight, opsLeft, clientVars, lastCall>>

\* SpecFeed: one call of getPosts or getTopics on either class, run to its end
InitFeed == SchedInit(MaxFeedOps) /\ CmdIdle /\ CleanIdle

NextFeed ==
    \/ \E c \in Classes : GetPosts(c, TRUE) /\ UNCHANGED nonBrowser
    \/ \E c \in Classes : GetTopics(c, TRUE) /\ UNCHANGED nonBrowser
    \/ \E c \in Classes : Process(c) /\ UNCHANGED nonSched
    \/ \E c \in Classes, resp \in Responses : \E r \in inflight[c] : Respond(c, r, resp) /\ UNCHANGED nonSched
    \/ \E i \in 1..Len(timers) : FireFeedCb(i) /\ UNCHANGED nonBrowser
    \/ \E i \in 1..Len(timers) : FireItem(i) /\ UNCHANGED nonBrowser
    \/ \E c \in Classes, error \in BOOLEAN : ItemDone(c, error) /\ UNCHANGED nonBrowser
    \/ \E i \in 1..Len(timers) : FireDone(i) /\ UNCHANGED nonSched

SpecFeed == InitFeed /\ [][NextFeed]_vars

(***************************************************************************)
(* Reading a driver's history                                              *)
(***************************************************************************)
FeedKinds == {"stream", "detail", "page"}

\* the entries of the class's history that belong to its pagination driver
IsDriverEv(x) ==
    \/ x.e \in {"item", "itemdone", "threw"}
    \/ x.e = "complete" /\ x.kind \in {"posts", "topics"}
    \/ x.e \in {"push", "cb"} /\ x.kind \in FeedKinds

DriverEvs(c) == SelectSeq(events[c], IsDriverEv)

\* the task callback the p-th entry of d follows most closely
LastCb(d, p) == d[CHOOSE q \in 1..p : d[q].e = "cb" /\ \A r \in (q + 1)..p : d[r].e # "cb"]

\* what tells an item of a response from the others
ItemKey(it, op) == IF op = "posts" THEN it.post_number ELSE it.id

CountOf(d, e) == Len(SelectSeq(d, LAMBDA x : x.e = e))

PendingItems(c) ==
    { i \in 1..Len(timers) : timers[i].fn = "item" /\ timers[i].class = c }

(***************************************************************************)
(* C14: when an item callback reports an error, no later item of the batch *)
(* or page is delivered, the driver pushes no further task, and the        *)
(* completion callback is called exactly once, with an error.              *)
(***************************************************************************)
C14_ItemErrorAborts ==
    \A c \in Classes :
        LET d == DriverEvs(c)
        IN  \A p \in 1..Len(d) :
                (d[p].e = "itemdone" /\ d[p].err) =>
                    /\ Len(d) = p + 1
                    /\ d[p + 1].e = "complete"
                    /\ d[p + 1].err
                    /\ CountOf(d, "complete") = 1
                    /\ PendingItems(c) = {}
                    /\ ~feed[c].busy
                    /\ \A i \in 1..Len(tasks[c]) : tasks[c][i].kind \notin FeedKinds

C14_Witness ==
    \E c \in Classes :
        LET d == DriverEvs(c)
        IN  /\ Quiet(c)
            /\ \E p \in 1..Len(d) :
                  /\ d[p].e = "itemdone"
                  /\ d[p].err
                  /\ d[p].id = 1
                  /\ Len(LastCb(d, p).items) = 2
            /\ feed[c].op = "posts"
            /\ feed[c].posts # << >>
            /\ CountOf(d, "complete") = 1

(***************************************************************************)
(* C17: the items of a batch or page are handed to the item callback one   *)
(* at a time, in the order of the response, each only after the callback   *)
(* of the one before signalled completion; the task of the next batch or   *)
(* page is pushed only when the callback of the last item has completed.   *)
(***************************************************************************)
C17_ItemsInSeries ==
    \A c \in Classes :
        LET d == DriverEvs(c)
        IN  /\ Cardinality(PendingItems(c)) + (IF feed[c].busy THEN 1 ELSE 0) <= 1
            /\ \A p \in 1..Len(d) :
                  /\ d[p].e = "item" =>
                        /\ p > 1
                        /\ IF d[p].id = 1 THEN d[p - 1].e = "cb"
                           ELSE /\ d[p - 1].e = "itemdone"
                                /\ d[p - 1].id = d[p].id - 1
                                /\ ~d[p - 1].err
                        /\ d[p].id <= Len(LastCb(d, p).items)
                        /\ ItemKey(d[p].item, d[p].kind)
                              = ItemKey(LastCb(d, p).items[d[p].id], d[p].kind)
                  /\ d[p].e = "itemdone" =>
                        /\ p > 1
                        /\ d[p - 1].e = "item"
                        /\ d[p - 1].id = d[p].id
                  /\ (d[p].e = "push" /\ p > 1) =>
                        \/ d[p - 1].e = "cb" /\ d[p - 1].items = << >> /\ ~d[p - 1].err
                        \/ /\ d[p - 1].e = "itemdone"
                           /\ ~d[p - 1].err
                           /\ d[p - 1].id = Len(LastCb(d, p).items)

C17_Witness ==
    \E c \in Classes :
        LET d == DriverEvs(c)
        IN  \E p \in 6..Len(d) :
                /\ d[p].e = "push"
                /\ d[p - 1].e = "itemdone" /\ d[p - 1].id = 2
                /\ d[p - 2].e = "item" /\ d[p - 2].id = 2
                /\ d[p - 3].e = "itemdone" /\ d[p - 3].id = 1
                /\ d[p - 4].e = "item" /\ d[p - 4].id = 1
                /\ d[p - 5].e = "cb"

(***************************************************************************)
(* C18: getPosts pushes the stream task first; after its answer every      *)
(* identifier of the stream is requested in exactly one detail task, in    *)
(* stream order, at most 200 to a task; every item handed to the item      *)
(* callback has been through cleanPost; when the backlog is empty the      *)
(* completion callback is called, once; an error of the stream task calls  *)
(* it once with the error and no detail task is pushed.                    *)
(***************************************************************************)
DetailPushes(d) == SelectSeq(d, LAMBDA x : x.e = "push" /\ x.kind = "detail")

C18_GetPostsBatches ==
    \A c \in Classes :
        feed[c].op = "posts" =>
            LET d == DriverEvs(c)
                parts == Forms(DetailPushes(d))
            IN  /\ d[1].e = "push" /\ d[1].kind = "stream"
                /\ CountOf(SelectSeq(d, LAMBDA x : x.kind = "stream"), "push") = 1
                /\ Concat(parts) \o feed[c].posts = feed[c].stream
                /\ \A i \in 1..Len(parts) : Len(parts[i]) >= 1 /\ Len(parts[i]) <= ChunkSize
                /\ \A p \in 1..Len(d) :
                      /\ (d[p].e = "push" /\ d[p].kind = "detail") =>
                            \E q \in 1..(p - 1) :
                                d[q].e = "cb" /\ d[q].kind = "stream" /\ ~d[q].err
                      /\ d[p].e = "item" =>
                            /\ d[p].item = cleanPost(LastCb(d, p).items[d[p].id])
                            /\ d[p].item.hasCleaned
                            /\ d[p].item.url # <<"undefined">>
                            /\ d[p].item.post_number = "1" =>
                                  /\ d[p].item.cleaned = <<"A">>
                                  /\ d[p].item.trust_level = 1
                            /\ d[p].item.post_number = "2" =>
                                  /\ d[p].item.cleaned = <<"C">>
                                  /\ d[p].item.trust_level = trustLevels.ignored
                      /\ (d[p].e = "cb" /\ d[p].kind = "stream" /\ d[p].err) =>
                            /\ p = 2
                            /\ Len(d) = 3
                            /\ d[3].e = "complete"
                            /\ d[3].err
                      /\ (d[p].e = "complete" /\ ~d[p].err) =>
                            /\ feed[c].posts = << >>
                            /\ Len(parts) = CeilDiv(Len(feed[c].stream), ChunkSize)
                            /\ d[p - 1].e \in {"cb", "itemdone"}
                      /\ d[p].e = "complete" => p = Len(d)
                /\ CountOf(d, "complete") <= 1
                /\ (Quiet(c) /\ CountOf(d, "threw") = 0 /\ ~feed[c].busy) =>
                      CountOf(d, "complete") = 1

C18_Witness ==
    \E c \in Classes :
        LET d == DriverEvs(c)
        IN  /\ feed[c].op = "posts"
            /\ Len(feed[c].stream) > ChunkSize + ChunkSize
            /\ Len(DetailPushes(d)) = 3
            /\ CountOf(d, "item") >= 3
            /\ d[Len(d)].e = "complete"
            /\ ~d[Len(d)].err

(***************************************************************************)
(* C19: getTopics pushes the task of the first page; each further page     *)
(* task is for the locator of the response before it and is pushed after   *)
(* that response's items were delivered; the completion callback is called *)
(* once, when a response has no locator (or on an error); as long as every *)
(* response carries a locator the driver goes on pushing page tasks and    *)
(* the completion callback is not called.                                  *)
(***************************************************************************)
PageEvs(d, e) == SelectSeq(d, LAMBDA x : x.e = e /\ x.kind = "page")

C19_GetTopicsFollowsLocator ==
    \A c \in Classes :
        feed[c].op = "topics" =>
            LET d == DriverEvs(c)
                pushes == PageEvs(d, "push")
                cbs == PageEvs(d, "cb")
            IN  /\ d[1].e = "push"
                /\ pushes[1].url = <<"/", "latest.json">>
                /\ \A k \in 2..Len(pushes) :
                      /\ k - 1 <= Len(cbs)
                      /\ ~cbs[k - 1].err
                      /\ cbs[k - 1].more # << >>
                      /\ pushes[k].url = cbs[k - 1].more
                /\ \A p \in 2..Len(d) :
                      /\ d[p].e = "push" =>
                            \/ d[p - 1].e = "cb" /\ d[p - 1].items = << >>
                            \/ d[p - 1].e = "itemdone"
                                  /\ d[p - 1].id = Len(LastCb(d, p).items)
                      /\ d[p].e = "complete" =>
                            /\ p = Len(d)
                            /\ ~d[p].err =>
                                  /\ cbs[Len(cbs)].more = << >>
                                  /\ ~cbs[Len(cbs)].err
                                  /\ Len(cbs) = Len(pushes)
                                  /\ d[p - 1].e \in {"cb", "itemdone"}
                /\ CountOf(d, "complete") <= 1
                /\ (\A k \in 1..Len(cbs) : cbs[k].more # << >>) =>
                      \A p \in 1..Len(d) : d[p].e = "complete" => d[p].err
                /\ (/\ CountOf(d, "itemdone") = CountOf(d, "item")
                    /\ PendingItems(c) = {}
                    /\ Len(cbs) = Len(pushes)
                    /\ CountOf(d, "threw") = 0
                    /\ CountOf(d, "complete") = 0) => FALSE

C19_Witness ==
    \E c \in Classes :
        LET d == DriverEvs(c)
            pushes == PageEvs(d, "push")
            cbs == PageEvs(d, "cb")
        IN  /\ feed[c].op = "topics"
            /\ Len(pushes) = MaxPages
            /\ pushes[MaxPages].url = pushes[MaxPages - 1].url
            /\ \A k \in 1..Len(cbs) : cbs[k].more # << >>
            /\ CountOf(d, "complete") = 0
            /\ CountOf(d, "item") >= 2

(***************************************************************************)
(* browser.js: the public operations and their callback argument           *)
(***************************************************************************)
Called(op, c, hasCallback, threw, pushed) ==
    [op |-> op, class |-> c, hasCallback |-> hasCallback, threw |-> threw,
     pushed |-> pushed]

\* throw new Error('callback must be supplied'): nothing else happens
Throw(c, op) ==
    /\ opsLeft > 0
    /\ opsLeft' = opsLeft - 1
    /\ lastCall' = Called(op, c, FALSE, TRUE, 0)
    /\ UNCHANGED <<tasks, running, inflight, timers, events, nextId, clientVars, feed>>

\* the task an operation pushes; its callback closes over the caller's callback
PushOp(c, op, kind, url, form, hasCallback) ==
    /\ opsLeft > 0
    /\ opsLeft' = opsLeft - 1
    /\ PushTask(c, Task(c, kind, url, form, TRUE, DelayOf(c)), << >>)
    /\ lastCall' = Called(op, c, hasCallback, FALSE, 1)
    /\ UNCHANGED <<running, inflight, timers, clientVars, feed>>

\* createPost(topicId, replyTo, content, callback)
CreatePost(c, hasCallback) ==
    IF ~hasCallback THEN Throw(c, "createPost")
    ELSE PushOp(c, "createPost", "post", <<"/", "posts">>, <<"raw", "topic_id">>, TRUE)

\* createPrivateMessage(to, title, content, callback)
CreatePrivateMessage(c, hasCallback) ==
    IF ~hasCallback THEN Throw(c, "createPrivateMessage")
    ELSE PushOp(c, "createPrivateMessage", "post", <<"/", "posts">>,
                <<"raw", "target_usernames">>, TRUE)

\* editPost(postId, content, editReason, callback)
EditPost(c, hasCallback) ==
    IF ~hasCallback THEN Throw(c, "editPost")
    ELSE PushOp(c, "editPost", "post", <<"/", "posts/1">>, <<"post">>, TRUE)

\* readPosts(topicId, postIds, callback)
ReadPostsCall(c, n, hasCallback) ==
    IF ~hasCallback THEN Throw(c, "readPosts")
    ELSE /\ ReadPosts(c, n)
         /\ lastCall' = Called("readPosts", c, TRUE, FALSE, nextId'[c] - nextId[c])
         /\ UNCHANGED feed

\* login(callback)
LoginCall(c, hasCallback) ==
    IF ~hasCallback THEN Throw(c, "login")
    ELSE /\ Login(c)
         /\ lastCall' = Called("login", c, TRUE, FALSE, nextId'[c] - nextId[c])
         /\ UNCHANGED feed

\* getPost(postId, callback): the callback is not looked at before the push
GetPost(c, hasCallback) ==
    PushOp(c, "getPost", IF hasCallback THEN "post" ELSE "postNoCb",
           <<"/", "posts/1.json">>, << >>, hasCallback)

\* getTopic(topicId, callback): the callback is not looked at before the push
GetTopic(c, hasCallback) ==
    PushOp(c, "getTopic", IF hasCallback THEN "topic" ELSE "topicNoCb",
           <<"/", "t/1.json">>, << >>, hasCallback)

\* getNotifications(callback): the callback is not looked at before the push
GetNotifications(c, hasCallback) ==
    PushOp(c, "getNotifications", IF hasCallback THEN "notif" ELSE "notifNoCb",
           <<"/", "notifications.json">>, << >>, hasCallback)

\* the closure of the task's callback holds a function as the caller's callback
HasUserCb(kind) == kind \in {"post", "topic", "notif", "markread"}

\* callback(err, ...): calling undefined throws inside the timer callback
CallUser(c, t, err) ==
    /\ events' = [events EXCEPT ![c] =
                    @ \o <<EvCb(t), IF HasUserCb(t.kind) THEN EvComplete(t.kind, err)
                                    ELSE EvThrew(t.kind)>>]
    /\ UNCHANGED <<tasks, nextId>>

\* (err, body) => err ? callback(err) : callback(null, cleanPost(body)), and
\* getTopic's callback: a body that is a string cannot take the properties
\* cleanPost / getTopic assign (strict mode), the assignment throws
BodyCb(c, t) ==
    IF t.err THEN CallUser(c, t, TRUE)
    ELSE IF t.body # "obj"
    THEN /\ events' = [events EXCEPT ![c] = @ \o <<EvCb(t), EvThrew(t.kind)>>]
         /\ UNCHANGED <<tasks, nextId>>
    ELSE CallUser(c, t, FALSE)

\* getNotifications' first callback: the mark-read task is pushed on success
NotifCb(c, t) ==
    IF t.err THEN CallUser(c, t, TRUE)
    ELSE PushTask(c, Task(c, IF HasUserCb(t.kind) THEN "markread" ELSE "markreadNoCb",
                          <<"/", "notifications/mark-read">>, << >>, TRUE, DelayOf(c)),
                  <<EvCb(t)>>)

\* (err2) => callback(err2, notifications)
MarkReadCb(c, t) == CallUser(c, t, t.err)

OpKinds == {"post", "postNoCb", "topic", "topicNoCb", "notif", "notifNoCb",
            "markread", "markreadNoCb"}

FireOpCb(i) ==
    /\ i \in 1..Len(timers)
    /\ timers[i].fn = "cb"
    /\ timers[i].kind \in OpKinds
    /\ CanFire(i)
    /\ timers' = RemoveAt(timers, i)
    /\ LET t == timers[i]
       IN  CASE t.kind \in {"post", "postNoCb", "topic", "topicNoCb"} -> BodyCb(t.class, t)
             [] t.kind \in {"notif", "notifNoCb"} -> NotifCb(t.class, t)
             [] t.kind \in {"markread", "markreadNoCb"} -> MarkReadCb(t.class, t)
    /\ UNCHANGED <<running, inflight, opsLeft, clientVars, feed, lastCall>>

\* parseCommands(post, callback) as one of the calls
ParseCommandsCall(p, hasCallback) ==
    /\ opsLeft > 0
    /\ opsLeft' = opsLeft - 1
    /\ ParseCommands(p, hasCallback)
    /\ lastCall' = Called("parseCommands", "none", hasCallback, cmdThrew', 0)
    /\ UNCHANGED <<tasks, running, inflight, timers, events, nextId, clientVars, feed>>

\* the posts handed to parseCommands among the other calls
CallPosts == { [some |-> FALSE, raw |-> << >>] }
             \cup { [some |-> TRUE, raw |-> t] : t \in Texts(1) }

\* SpecCall: the public operations, called with and without their callback
InitCall == SchedInit(MaxCalls) /\ CmdIdle /\ CleanIdle

NextCall ==
    \/ \E c \in Classes, cb \in BOOLEAN : CreatePost(c, cb) /\ UNCHANGED nonBrowser
    \/ \E c \in Classes, cb \in BOOLEAN : CreatePrivateMessage(c, cb) /\ UNCHANGED nonBrowser
    \/ \E c \in Classes, cb \in BOOLEAN : EditPost(c, cb) /\ UNCHANGED nonBrowser
    \/ \E c \in Classes, cb \in BOOLEAN : ReadPostsCall(c, ChunkSize + 1, cb) /\ UNCHANGED nonBrowser
    \/ \E c \in Classes, cb \in BOOLEAN : LoginCall(c, cb) /\ UNCHANGED nonBrowser
    \/ \E c \in Classes, cb \in BOOLEAN : GetPost(c, cb) /\ UNCHANGED nonBrowser
    \/ \E c \in Classes, cb \in BOOLEAN : GetTopic(c, cb) /\ UNCHANGED nonBrowser
    \/ \E c \in Classes, cb \in BOOLEAN : GetNotifications(c, cb) /\ UNCHANGED nonBrowser
    \/ \E c \in Classes, cb \in BOOLEAN : GetPosts(c, cb) /\ UNCHANGED nonBrowser
    \/ \E c \in Classes, cb \in BOOLEAN : GetTopics(c, cb) /\ UNCHANGED nonBrowser
    \/ \E p \in CallPosts, cb \in BOOLEAN : ParseCommandsCall(p, cb) /\ UNCHANGED <<cleanVars, handleVars>>
    \/ PrepareParser /\ UNCHANGED nonCmd
    \/ Dispatch /\ UNCHANGED nonCmd
    \/ \E c \in Classes : Process(c) /\ UNCHANGED nonSched
    \/ \E c \in Classes, resp \in Responses : \E r \in inflight[c] : Respond(c, r, resp) /\ UNCHANGED nonSched
    \/ \E i \in 1..Len(timers) : FireCb(i) /\ UNCHANGED nonSched
    \/ \E i \in 1..Len(timers) : FireOpCb(i) /\ UNCHANGED nonBrowser
    \/ \E i \in 1..Len(timers) : FireFeedCb(i) /\ UNCHANGED nonBrowser
    \/ \E i \in 1..Len(timers) : FireItem(i) /\ UNCHANGED nonBrowser
    \/ \E c \in Classes, error \in BOOLEAN : ItemDone(c, error) /\ UNCHANGED nonBrowser
    \/ \E i \in 1..Len(timers) : FireDone(i) /\ UNCHANGED nonSched

SpecCall == InitCall /\ [][NextCall]_vars

(***************************************************************************)
(* C15: a public operation called without its completion callback throws   *)
(* to its caller and pushes no task.                                       *)
(***************************************************************************)
C15_FailFast ==
    (lastCall.op # "none" /\ ~lastCall.hasCallback) =>
        (lastCall.threw /\ lastCall.pushed = 0)

C15_Witness ==
    /\ lastCall.op = "getPost"
    /\ ~lastCall.hasCallback
    /\ ~lastCall.threw
    /\ lastCall.pushed = 1
    /\ Len(tasks[lastCall.class]) = 1


(***************************************************************************)
(* C21: when the task callback of getPosts or getTopics is called without  *)
(* a transport error and with a body that is not the decoded object, the    *)
(* driver's completion callback is called exactly once, with an error, and  *)
(* nothing is thrown out of the timer callback.                             *)
(***************************************************************************)
C21_ShapePromoted ==
    \A c \in Classes :
        LET d == DriverEvs(c)
        IN  \A p \in 1..Len(d) :
                (d[p].e = "cb" /\ ~d[p].err /\ d[p].body # "obj") =>
                    /\ CountOf(d, "threw") = 0
                    /\ CountOf(d, "complete") = 1
                    /\ \A q \in 1..Len(d) : d[q].e = "complete" => (q > p /\ d[q].err)

C21_Witness ==
    \E c \in Classes :
        LET d == DriverEvs(c)
        IN  /\ feed[c].op = "posts"
            /\ feed[c].st = "threw"
            /\ feed[c].hasComplete
            /\ CountOf(d, "complete") = 0
            /\ \E p \in 1..(Len(d) - 1) :
                  /\ d[p].e = "cb"
                  /\ d[p].kind = "stream"
                  /\ ~d[p].err
                  /\ d[p].body = "text"
                  /\ d[p + 1].e = "threw"

(***************************************************************************)
(* C22: the two classes run independently.  Each class has at most one     *)
(* task in flight, so at most two are in flight in all; a class with       *)
(* waiting tasks and a free worker can start its next task whatever the     *)
(* other class is doing; and a timer of one class is not held back by the   *)
(* other class's post-task delay.                                           *)
(***************************************************************************)
\* a step of the class worker of c, and the firing of the i-th timer
ProcessStep(c) == Process(c) /\ UNCHANGED nonSched

FireTimer(i) == (FireCb(i) \/ FireDone(i)) /\ UNCHANGED nonSched

\* every timer created before the i-th is a post-task delay of another class
OnlyBehindOtherDelays(i) ==
    \A j \in 1..(i - 1) :
        /\ timers[j].fn = "done"
        /\ timers[j].class # timers[i].class
        /\ timers[j].delay > timers[i].delay

C22_ClassesIndependent ==
    /\ \A c \in Classes :
          /\ Cardinality(inflight[c]) <= 1
          /\ Cardinality(running[c]) <= 1
          /\ inflight[c] \subseteq { r \in inflight[c] : r.id \in running[c] }
          /\ (Len(tasks[c]) > 0 /\ running[c] = {}) => ENABLED ProcessStep(c)
    /\ Cardinality(inflight["core"]) + Cardinality(inflight["plugin"]) <= 2
    /\ \A i \in 1..Len(timers) : OnlyBehindOtherDelays(i) => ENABLED FireTimer(i)

\* the second task of the core class is in flight while the plugin class waits
\* out the delay of a task of its own
C22_Witness ==
    /\ inflight["core"] # {}
    /\ Happened("core", "fired", "csrf", FALSE)
    /\ running["plugin"] # {}
    /\ inflight["plugin"] = {}
    /\ \E i \in 1..Len(timers) :
          /\ timers[i].fn = "done"
          /\ timers[i].class = "plugin"
          /\ timers[i].delay = PluginDelay

(***************************************************************************)
(* C23: the X-CSRF-Token header is written only by getCSRF's task callback *)
(* and only when the request did not fail; it is written in the step that   *)
(* pushes the login task, so the login request is dispatched with it; and   *)
(* every request dispatched on either class carries the header as it is at  *)
(* the time of the dispatch.  Once written the header is never unset.       *)
(***************************************************************************)
\* the step fires the i-th timer, the callback of a CSRF task
FiresCsrfCb(i) ==
    /\ timers[i].fn = "cb"
    /\ timers[i].kind = "csrf"
    /\ Len(timers') = Len(timers) - 1
    /\ timers' = RemoveAt(timers, i)

Dispatched(c) == inflight'[c] \ inflight[c]

CsrfStep ==
    /\ csrfHeader' # csrfHeader =>
          \E i \in 1..Len(timers) :
              /\ FiresCsrfCb(i)
              /\ ~timers[i].err
              /\ csrfHeader' = CsrfOf(timers[i].body)
    /\ \A i \in 1..Len(timers) :
          (FiresCsrfCb(i) /\ CanFire(i)) =>
              IF timers[i].err
              THEN csrfHeader' = csrfHeader /\ nextId' = nextId
              ELSE /\ csrfHeader' = CsrfOf(timers[i].body)
                   /\ Len(tasks'[timers[i].class]) = Len(tasks[timers[i].class]) + 1
                   /\ tasks'[timers[i].class][Len(tasks'[timers[i].class])].kind = "login"
    /\ csrfHeader # "unset" => csrfHeader' # "unset"
    /\ \A c \in Classes :
          /\ \A r \in Dispatched(c) : r.csrf = csrfHeader
          /\ \A r \in inflight'[c] : r.kind = "login" => r.csrf # "unset"

C23_CsrfHeaderShared == [][CsrfStep]_vars

\* core logged in; a plugin request is in flight with the token
C23_Witness ==
    /\ loginSt["core"] \in {"login", "done"}
    /\ loginSt["plugin"] = "idle"
    /\ csrfHeader = "token"
    /\ \E r \in inflight["plugin"] : r.kind = "plain" /\ r.csrf = "token"

(***************************************************************************)
(* browser.js: cleanPost applied to a post again and again                 *)
(***************************************************************************)
\* cleanPost(post), on the post as the previous call left it
CleanPost ==
    /\ Len(itemLog) < MaxCleanCalls
    /\ item' = cleanPost(item)
    /\ itemLog' = Append(itemLog, "cleanPost")
    /\ UNCHANGED item0

\* the posts handed to cleanPost
NormItems ==
    { [FeedPost(u, raw, "2", reply) EXCEPT !.admin = a, !.moderator = m, !.staff = s,
                                           !.trust_level = t] :
        u \in Usernames, raw \in { << >>, <<"C">>, <<"A">> \o Open \o <<"B">> \o Close },
        reply \in {"null", "1"}, a \in BOOLEAN, m \in BOOLEAN, s \in BOOLEAN,
        t \in {1, 4} }

\* SpecNorm: cleanPost applied to one post, more than once
InitNorm ==
    /\ SchedInit(0)
    /\ CmdIdle
    /\ item \in NormItems
    /\ item0 = item
    /\ itemLog = << >>

NextNorm == CleanPost /\ UNCHANGED nonClean

SpecNorm == InitNorm /\ [][NextNorm]_vars

(***************************************************************************)
(* C24: however often cleanPost has been applied to a post, its url,       *)
(* reply_to, trust_level (and cleaned text) are the ones the first          *)
(* application gave, and its raw text is the one handed in.                 *)
(***************************************************************************)
C24_CleanPostIdempotent ==
    Len(itemLog) >= 1 =>
        LET once == cleanPost(item0)
        IN  /\ item.url = once.url
            /\ item.reply_to = once.reply_to
            /\ item.trust_level = once.trust_level
            /\ item.cleaned = once.cleaned
            /\ item.raw = item0.raw
            /\ item = once

C24_Witness ==
    /\ Len(itemLog) = 2
    /\ item0.admin
    /\ item0.username = "bob"
    /\ item0.raw = <<"A">> \o Open \o <<"B">> \o Close
    /\ item.trust_level = 8
    /\ item.url = <<"forum", "/t/", "slug", "/", "7", "/", "2">>
    /\ item.reply_to = <<"forum", "/t/", "slug", "/", "7", "/", "1">>
    /\ item.cleaned = <<"A">>
    /\ item.raw = item0.raw

(***************************************************************************)
(* The scheduler under fairness: the event loop runs every deferred        *)
(* q.process() and every timer that is due, and the transport answers      *)
(* every request.                                                          *)
(***************************************************************************)
InitLive == SchedInit(MaxLiveOps) /\ CmdIdle /\ CleanIdle

\* the transport answers a request of class c
Answer(c) ==
    \E resp \in Responses : \E r \in inflight[c] : Respond(c, r, resp) /\ UNCHANGED nonSched

\* the event loop runs a timer that is due
RunTimer == \E i \in 1..Len(timers) : FireTimer(i)

Fairness ==
    /\ \A c \in Classes : WF_vars(ProcessStep(c))
    /\ \A c \in Classes : WF_vars(Answer(c))
    /\ WF_vars(RunTimer)

SpecLive == InitLive /\ [][Next]_vars /\ Fairness

(***************************************************************************)
(* C25: every task pushed on a class is eventually started, answered and   *)
(* its worker released, whether or not it has a callback and whatever the   *)
(* transport answered; a waiting task leaves the queue only by being        *)
(* started.                                                                 *)
(***************************************************************************)
\* a task leaves the waiting list of its class only to run
NoCancel ==
    \A c \in Classes : \A i \in 1..Len(tasks[c]) :
        (\A j \in 1..Len(tasks'[c]) : tasks'[c][j].id # tasks[c][i].id) =>
            /\ tasks[c][i].id \in running'[c]
            /\ \E r \in inflight'[c] : r.id = tasks[c][i].id

Completed(c, id) ==
    /\ CountEv(c, "start", id) = 1
    /\ CountEv(c, "resp", id) = 1
    /\ CountEv(c, "fired", id) = 1
    /\ id \notin running[c]

C25_EveryTaskCompletes ==
    /\ [][NoCancel]_vars
    /\ \A c \in Classes : \A id \in 1..MaxLiveOps : (nextId[c] >= id) ~> Completed(c, id)
    /\ \A c \in Classes : <>[](Quiet(c))

\* a task without a callback whose request failed has released the worker of
\* its class, and the next task, answered with text that is not JSON, is
\* about to
C25_Witness ==
    \E c \in Classes :
        /\ nextId[c] = 2
        /\ Completed(c, 1)
        /\ ~PushedWithCb(c, 1)
        /\ \E p \in 1..Len(events[c]) :
              events[c][p].e = "resp" /\ events[c][p].id = 1 /\ events[c][p].err
        /\ \E i \in 1..Len(timers) :
              /\ timers[i].fn = "done"
              /\ timers[i].class = c
              /\ timers[i].id = 2
              /\ timers[i].raw = "text"
              /\ ENABLED FireTimer(i)

(***************************************************************************)
(* C26: the login task is pushed in the step that runs the CSRF task's     *)
(* callback, not when login is called.  A task pushed on the class between  *)
(* the two pushes is started after the CSRF task and before the login task; *)
(* a task pushed after the login task is started after it; a task pushed    *)
(* before login was called is started before the CSRF task.                 *)
(***************************************************************************)
Started(c, id) == \E s \in 1..Len(events[c]) : events[c][s].e = "start" /\ events[c][s].id = id

StartPos(c, id) == CHOOSE s \in 1..Len(events[c]) : events[c][s].e = "start" /\ events[c][s].id = id

\* task a of class c was started, and before task b if that was started at all
StartedFirst(c, a, b) ==
    Started(c, b) => (Started(c, a) /\ StartPos(c, a) < StartPos(c, b))

C26_LoginNotAtomic ==
    \A c \in Classes :
        LET ev == events[c]
        IN  \A p \in 1..Len(ev), q \in 1..Len(ev) :
                (/\ ev[p].e = "push" /\ ev[p].kind = "csrf"
                 /\ ev[q].e = "push" /\ ev[q].kind = "login") =>
                    /\ p < q - 1
                    /\ ev[q - 1].e = "cb"
                    /\ ev[q - 1].id = ev[p].id
                    /\ ~ev[q - 1].err
                    /\ StartedFirst(c, ev[p].id, ev[q].id)
                    /\ \A r \in 1..Len(ev) :
                          (ev[r].e = "push" /\ r # p /\ r # q) =>
                              IF r < p THEN StartedFirst(c, ev[r].id, ev[p].id)
                              ELSE IF r < q
                              THEN /\ StartedFirst(c, ev[p].id, ev[r].id)
                                   /\ StartedFirst(c, ev[r].id, ev[q].id)
                              ELSE StartedFirst(c, ev[q].id, ev[r].id)

\* a task pushed after login was called ran between the two steps of login
C26_Witness ==
    \E c \in Classes :
        /\ nextId[c] = 3
        /\ \E p \in 1..Len(events[c]), r \in 1..Len(events[c]), q \in 1..Len(events[c]) :
              /\ p < r /\ r < q
              /\ events[c][p].e = "push" /\ events[c][p].kind = "csrf"
              /\ events[c][r].e = "push" /\ events[c][r].kind = "plain"
              /\ events[c][q].e = "push" /\ events[c][q].kind = "login"
              /\ Started(c, events[c][q].id)
              /\ StartPos(c, events[c][p].id) < StartPos(c, events[c][r].id)
              /\ StartPos(c, events[c][r].id) < StartPos(c, events[c][q].id)

(***************************************************************************)
(* browser.js: the module accessor and the handles' wrappers               *)
(***************************************************************************)
\* the arguments of the function Node wraps the module in
ModuleArguments == <<"exports", "require", "module", "__filename", "__dirname">>

\* typeof of the values the model passes around
TypeOf(v) ==
    IF v \in {"fn", "require"} THEN "function"
    ELSE IF v \in {"exports", "module"} THEN "object"
    ELSE "string"

\* the operations called through a handle, with the arguments of the caller
HandleArgs ==
    [createPost           |-> <<"7", "1", "text", "fn">>,
     createPrivateMessage |-> <<"bob", "title", "text", "fn">>,
     editPost             |-> <<"1", "text", "reason", "fn">>,
     readPosts            |-> <<"7", "ids", "fn">>,
     login                |-> <<"fn">>,
     getNotifications     |-> <<"fn">>,
     postAction           |-> <<"like", "1", "message", "fn">>]

HandleOps == DOMAIN HandleArgs

\* the position of the callback among the parameters of an operation
CallbackIndex(op) == Len(HandleArgs[op])

\* () => externals[key].apply(queue, arguments): an arrow function has no
\* arguments object of its own, nor has the arrow function around it, so the
\* name is the one of the module's wrapper function
WrapperArguments(callerArgs) == ModuleArguments

\* module.exports = function get() { return internals.current; }
get == current

SetCore ==
    /\ current' = "core"
    /\ given' = [given EXCEPT !.setBy = "setCore"]

SetPlugins ==
    /\ current' = "plugin"
    /\ given' = [given EXCEPT !.setBy = "setPlugins"]

\* get()[op](...callerArgs): the wrapper of the handle applies the operation
\* to the handle's queue object
HandleCall(op) ==
    LET c == get
        passed == WrapperArguments(HandleArgs[op])
        cb == TypeOf(passed[CallbackIndex(op)]) = "function"
    IN  /\ given' = [op |-> op, setBy |-> given.setBy, handle |-> c,
                     args |-> HandleArgs[op], passed |-> passed]
        /\ current' = current
        /\ CASE op = "createPost" -> CreatePost(c, cb)
             [] op = "createPrivateMessage" -> CreatePrivateMessage(c, cb)
             [] op = "editPost" -> EditPost(c, cb)
             [] op = "readPosts" -> ReadPostsCall(c, ChunkSize + 1, cb)
             [] op = "login" -> LoginCall(c, cb)
             [] op = "getNotifications" -> GetNotifications(c, cb)
             [] op = "postAction" ->
                    /\ PostAction(c, cb)
                    /\ lastCall' = Called("postAction", c, cb, FALSE, 1)
                    /\ UNCHANGED feed

\* SpecHandle: operations called through the handle the accessor returns
InitHandle == SchedInit(MaxHandleCalls) /\ CmdIdle /\ CleanIdle

NextHandle ==
    \/ SetCore /\ UNCHANGED <<schedVars, cmdVars, cleanVars, feedVars>>
    \/ SetPlugins /\ UNCHANGED <<schedVars, cmdVars, cleanVars, feedVars>>
    \/ \E op \in HandleOps : HandleCall(op) /\ UNCHANGED <<cmdVars, cleanVars>>
    \/ \E c \in Classes : Process(c) /\ UNCHANGED nonSched
    \/ \E c \in Classes, resp \in Responses : \E r \in inflight[c] : Respond(c, r, resp) /\ UNCHANGED nonSched
    \/ \E i \in 1..Len(timers) : FireOpCb(i) /\ UNCHANGED nonBrowser
    \/ \E i \in 1..Len(timers) : FireDone(i) /\ UNCHANGED nonSched

SpecHandle == InitHandle /\ [][NextHandle]_vars

(***************************************************************************)
(* C27: the accessor returns the core handle as loaded and after setCore,  *)
(* the plugin handle after setPlugins; an operation called through the      *)
(* handle receives the arguments of its caller, so a caller who supplies    *)
(* the callback is not turned away, and its tasks are pushed on the queue   *)
(* of the handle's class with that class's delay.                           *)
(***************************************************************************)
AccessorFollowsSetters ==
    /\ given.setBy \in {"load", "setCore"} => get = "core"
    /\ given.setBy = "setPlugins" => get = "plugin"

BoundToClass ==
    /\ lastCall.op = given.op
    /\ lastCall.class = given.handle
    /\ \A c \in Classes :
          /\ \A i \in 1..Len(tasks[c]) : tasks[c][i].delay = DelayOf(c)
          /\ \A r \in inflight[c] : r.delay = DelayOf(c)

C27_HandleBound ==
    /\ AccessorFollowsSetters
    /\ given.op # "none" =>
          /\ BoundToClass
          /\ given.passed = given.args
          /\ ~lastCall.threw

\* createPost called through the plugin handle with a callback: it received
\* the module wrapper's arguments and threw for want of a callback
C27_Witness ==
    /\ given.op = "createPost"
    /\ given.setBy = "setPlugins"
    /\ given.handle = "plugin"
    /\ TypeOf(given.args[4]) = "function"
    /\ given.passed = ModuleArguments
    /\ lastCall.op = "createPost"
    /\ lastCall.threw
    /\ nextId["plugin"] = 0
====
